---- MODULE Spec2Model ----
(***************************************************************************)
(* iwallpapers: the wallpaper/subscription store (SqliteRepository and     *)
(* PostgresRepository) and the Telegram bot that sends wallpapers on       *)
(* demand and on a schedule (TelegramBot).                                 *)
(*                                                                         *)
(* The specifications share the variables:                                 *)
(*   SpecStore  the store contract: the same sequence of public calls is   *)
(*              applied to both backends side by side;                     *)
(*   Spec       the bot: the command handlers, the scheduler loop, the     *)
(*              send coroutine and a crawler, over one repository;         *)
(*   SpecSubs, SpecUpdate   the handlers and calls that write table        *)
(*              subscriptions;                                             *)
(*   SpecSched, SpecCycle, SpecClock   the scheduler over a fixed set of   *)
(*              subscribers, with shutdown, unsubscribing and a clock;     *)
(*   SpecSend   on-demand and scheduled sends over a filled store;         *)
(*   SpecCodec, SpecCrawl   the column conversions and the crawlers.       *)
(***************************************************************************)
EXTENDS Integers, Sequences, FiniteSets, TLC

\* ------------------------------------------------------------------ bounds
\* Distinct image URLs (src) a crawler can meet.
MaxSrcs == 2
\* Distinct file_ids Telegram hands out.
MaxHandles == 2
\* Chats that talk to the bot.
MaxChats == 2
\* insert_wallpaper calls of one SpecStore run.
MaxUpserts == 2
\* Distinct images the crawled sites serve during one Spec run.
MaxCrawled == 1
\* Chats subscribed when a SpecSched run starts.
MaxSubscribers == 4

\* ------------------------------------------------------- program constants
\* file_id=None (spiders), NULL in the file_id column.
None == 0
\* max_size, max_width, max_height the bot passes to get_random_wallpapers.
MaxSizeBytes == 5 * 1024 * 1024
MaxWidth == 10000
MaxHeight == 10000
\* retry: int = 3
Retry == 3
\* len(tasks) >= 3
FanOut == 3

Srcs == 1..MaxSrcs
CrawlSrcs == 1..MaxCrawled
Handles == 1..MaxHandles
Chats == 1..MaxChats
Subscribers == 1..MaxSubscribers
Backends == {"sqlite", "postgres"}

\* hashlib.md5(src).hexdigest(): a digest, injective on the URLs of the model.
Md5(src) == <<"md5", src>>
Ids == {Md5(s) : s \in Srcs}

\* size, width and height of an image: one that passes the bot's ceilings and
\* one too large in each dimension.
Shapes ==
    { [size |-> 1000,    width |-> 1920,  height |-> 1080],
      [size |-> 6000000, width |-> 1920,  height |-> 1080],
      [size |-> 1000,    width |-> 12000, height |-> 1080],
      [size |-> 1000,    width |-> 1920,  height |-> 12000] }

\* A Wallpaper (common/model.py). The fields the store never inspects (source,
\* author, tags, colors, ...) travel with sfw and the shape as "the other
\* fields"; created_at records who supplied the timestamp.
Wallpaper(src, shape, sfw, file_id) ==
    [id |-> Md5(src), src |-> src, size |-> shape.size, width |-> shape.width,
     height |-> shape.height, sfw |-> sfw, file_id |-> file_id,
     created_at |-> "caller"]

Wallpapers ==
    {Wallpaper(s, sh, f, h) :
        s \in Srcs, sh \in Shapes, f \in BOOLEAN, h \in Handles \cup {None}}

VARIABLES
    db,            \* db[b]: the rows of table wallpapers of backend b
    ret,           \* the last public store call of SpecStore and what it returned
    lastUpsert,    \* lastUpsert[id]: the wallpaper of the latest insert_wallpaper(id)
    upserts,       \* insert_wallpaper calls made so far (SpecStore)
    backend,       \* the repository the bot and the crawler were constructed with
    running_jobs,  \* TelegramBot._running_jobs
    tasks,         \* the _send_wallpaper_to_chat coroutines
    sched,         \* the position of _scheduled_wallpaper_task
    subs,          \* the rows of table subscriptions
    clock          \* the time read by the scheduler, in the timed run

vars == <<db, ret, lastUpsert, upserts, backend, running_jobs, tasks, sched,
          subs, clock>>

\* ------------------------------------------------------------------- store

\* A row that has a file_id is kept as it is: the first file_id stays.
SqliteInsertFirstFileId(rows, w) ==
    IF \E r \in rows : r.id = w.id /\ r.file_id # None
    THEN rows
    ELSE {r \in rows : r.id # w.id} \cup {w}

\* INSERT OR REPLACE INTO wallpapers: a row with the same primary key is
\* deleted, then the caller's row is inserted whole.
SqliteInsert(rows, w) ==
    {r \in rows : r.id # w.id} \cup {w}

\* ON CONFLICT (id) DO NOTHING: an existing row is left as it is.
PostgresInsertDoNothing(rows, w) ==
    IF \E r \in rows : r.id = w.id THEN rows ELSE rows \cup {w}

\* INSERT ... ON CONFLICT (id) DO UPDATE SET file_id = EXCLUDED.file_id,
\* created_at = CURRENT_TIMESTAMP: an existing row keeps every other column.
PostgresInsert(rows, w) ==
    IF \E r \in rows : r.id = w.id
    THEN {IF r.id = w.id
          THEN [r EXCEPT !.file_id = w.file_id, !.created_at = "server"]
          ELSE r : r \in rows}
    ELSE rows \cup {w}

\* INSERT OR IGNORE on either backend: a stored row is never written again.
InsertWallpaperOrIgnore(b, rows, w) ==
    IF \E r \in rows : r.id = w.id THEN rows ELSE rows \cup {w}

\* insert_wallpaper of backend b, when the statement commits.
InsertWallpaper(b, rows, w) ==
    IF b = "sqlite" THEN SqliteInsert(rows, w) ELSE PostgresInsert(rows, w)

\* get_wallpaper_by_id: SELECT * FROM wallpapers WHERE id = ?; fetchone().
\* The set of values the call can return ({} stands for None).
GetWallpaperById(rows, id) ==
    {r \in rows : r.id = id}

\* The size condition left out of the WHERE clause.
MatchesNoSize(r, max_size, max_width, max_height, sfw) ==
    /\ (max_width > 0 => r.width <= max_width)
    /\ (max_height > 0 => r.height <= max_height)
    /\ (sfw # "None" => r.sfw = (sfw = "True"))

\* The sfw condition left out of the WHERE clause.
MatchesNoSfw(r, max_size, max_width, max_height, sfw) ==
    /\ (max_size > 0 => r.size <= max_size)
    /\ (max_width > 0 => r.width <= max_width)
    /\ (max_height > 0 => r.height <= max_height)

\* The WHERE conditions built from the arguments: a ceiling of 0 adds no
\* condition, sfw None adds none.
Matches(r, max_size, max_width, max_height, sfw) ==
    /\ (max_size > 0 => r.size <= max_size)
    /\ (max_width > 0 => r.width <= max_width)
    /\ (max_height > 0 => r.height <= max_height)
    /\ (sfw # "None" => r.sfw = (sfw = "True"))

Min(a, b) == IF a <= b THEN a ELSE b

\* ORDER BY RANDOM() LIMIT n over the matching rows: every choice of
\* min(n, |matching|) of them.
RandomLimit(matching, n) ==
    {S \in SUBSET matching : Cardinality(S) = Min(n, Cardinality(matching))}

\* SqliteRepository._get_random_wallpapers. SQLite reads a negative LIMIT as
\* no limit.
SqliteRandom(rows, max_count, max_size, max_width, max_height, sfw, unpublished_first) ==
    LET matching == {r \in rows :
                        /\ (unpublished_first => r.file_id = None)
                        /\ Matches(r, max_size, max_width, max_height, sfw)}
    IN  IF max_count < 0 THEN {matching} ELSE RandomLimit(matching, max_count)

\* The second query left out: only rows without a file_id are ever returned.
SqliteGetRandomNoFallback(rows, max_count, max_size, max_width, max_height, sfw) ==
    SqliteRandom(rows, max_count, max_size, max_width, max_height, sfw, TRUE)

\* SqliteRepository.get_random_wallpapers: the rows without a file_id first,
\* and every row when that query returns nothing.
SqliteGetRandomWallpapers(rows, max_count, max_size, max_width, max_height, sfw) ==
    LET first == SqliteRandom(rows, max_count, max_size, max_width, max_height, sfw, TRUE)
        second == SqliteRandom(rows, max_count, max_size, max_width, max_height, sfw, FALSE)
    IN  (first \ {{}}) \cup (IF {} \in first THEN second ELSE {})

\* PostgresRepository.get_random_wallpapers: one query, with no condition on
\* file_id. PostgreSQL rejects a negative LIMIT; the error is caught and the
\* call returns [].
PostgresGetRandomWallpapers(rows, max_count, max_size, max_width, max_height, sfw) ==
    LET matching == {r \in rows : Matches(r, max_size, max_width, max_height, sfw)}
    IN  IF max_count < 0 THEN {{}} ELSE RandomLimit(matching, max_count)

\* get_random_wallpapers of backend b: the set of results the call can return.
GetRandomWallpapers(b, rows, max_count, max_size, max_width, max_height, sfw) ==
    IF b = "sqlite"
    THEN SqliteGetRandomWallpapers(rows, max_count, max_size, max_width, max_height, sfw)
    ELSE PostgresGetRandomWallpapers(rows, max_count, max_size, max_width, max_height, sfw)

\* --------------------------------------------------- the store contract run

NoRet == [op |-> "none", backend |-> "none", args |-> <<>>, value |-> {}]

\* The arguments the contract run passes to get_random_wallpapers: a limit
\* that is negative, zero or positive; no ceiling at all, or the ceilings the
\* bot passes.
Counts == {-1, 0, 1, 2}
Ceilings ==
    { [max_size |-> 0, max_width |-> 0, max_height |-> 0],
      [max_size |-> MaxSizeBytes, max_width |-> MaxWidth, max_height |-> MaxHeight] }
SfwArgs == {"True", "False", "None"}

InitStore ==
    /\ db = [b \in Backends |-> {}]
    /\ ret = NoRet
    /\ lastUpsert = [i \in Ids |-> {}]
    /\ upserts = 0

\* insert_wallpaper(w) on each backend; both commit and return True.
StoreInsert(w) ==
    /\ ret = NoRet
    /\ upserts < MaxUpserts
    /\ upserts' = upserts + 1
    /\ db' = [b \in Backends |-> InsertWallpaper(b, db[b], w)]
    /\ lastUpsert' = [lastUpsert EXCEPT ![w.id] = {w}]
    /\ ret' = [op |-> "insert_wallpaper", backend |-> "both", args |-> <<w>>,
               value |-> {TRUE}]

\* get_wallpaper_by_id(id) on backend b.
StoreGetById(b, id) ==
    /\ ret = NoRet
    /\ \E v \in (IF GetWallpaperById(db[b], id) = {} THEN {{}}
                 ELSE {{r} : r \in GetWallpaperById(db[b], id)}) :
          ret' = [op |-> "get_wallpaper_by_id", backend |-> b, args |-> <<id>>,
                  value |-> v]
    /\ UNCHANGED <<db, lastUpsert, upserts>>

\* get_random_wallpapers(max_count, max_size, max_width, max_height, sfw) on
\* backend b.
StoreGetRandom(b, max_count, max_size, max_width, max_height, sfw) ==
    /\ ret = NoRet
    /\ \E v \in GetRandomWallpapers(b, db[b], max_count, max_size, max_width,
                                    max_height, sfw) :
          ret' = [op |-> "get_random_wallpapers", backend |-> b,
                  args |-> [max_count |-> max_count, max_size |-> max_size,
                            max_width |-> max_width, max_height |-> max_height,
                            sfw |-> sfw],
                  value |-> v]
    /\ UNCHANGED <<db, lastUpsert, upserts>>

\* The public operations of a repository (WallpaperRepository and
\* SubscriptionRepository).
StoreOps ==
    {"insert_wallpaper", "get_wallpaper_by_id", "get_wallpaper_by_src",
     "get_random_wallpapers", "add_subscription", "update_subscription",
     "get_subscription", "get_active_subscriptions", "deactivate_subscription"}

\* What can go wrong inside an operation: the database raises ("storage":
\* sqlite3.Error, psycopg2.Error), an argument cannot be serialised
\* ("serialise": TypeError from ",".join or json.dumps), a fetched row cannot
\* be converted ("convert": an exception of json.loads, ChatType or
\* datetime.fromisoformat).
Faults == {"storage", "serialise", "convert"}

\* The operations that serialise an argument before the statement runs, and
\* those that convert fetched rows.
Serialises(op) == op \in {"insert_wallpaper", "add_subscription"}
Converts(op) ==
    op \in {"get_wallpaper_by_id", "get_wallpaper_by_src", "get_random_wallpapers",
            "get_subscription", "get_active_subscriptions"}

\* No except clause at all: every fault reaches the caller.
ExceptClauseNone(b) == {}

\* The faults the except clause of an operation catches: except sqlite3.Error
\* in SqliteRepository, except Exception in PostgresRepository.
ExceptClause(b) == IF b = "sqlite" THEN {"storage"} ELSE Faults

\* The row conversion runs in _row_to_wallpaper or _row_to_subscription, whose
\* own except Exception returns None; SqliteRepository.get_wallpaper_by_id
\* builds the Wallpaper in place.
ConvertsInHelper(b, op) == ~(b = "sqlite" /\ op = "get_wallpaper_by_id")

\* The return value of the except clause of op.
FailureValue(op) ==
    IF op \in {"insert_wallpaper", "add_subscription", "update_subscription",
               "deactivate_subscription"}
    THEN "False"
    ELSE IF op \in {"get_wallpaper_by_id", "get_subscription"} THEN "None"
    ELSE "[]"

\* Repositories without except clauses and without guarded row conversion:
\* whatever fails inside an operation reaches its caller.
OutcomeRaises(b, op, f) == "raised"

\* How operation op of backend b ends when fault f arises in it.
Outcome(b, op, f) ==
    IF f = "convert" /\ ConvertsInHelper(b, op) THEN FailureValue(op)
    ELSE IF f \in ExceptClause(b) THEN FailureValue(op)
    ELSE "raised"

\* A call of op on backend b in which fault f arises: nothing is committed.
StoreFault(b, op, f) ==
    /\ ret = NoRet
    /\ f = "serialise" => Serialises(op)
    /\ f = "convert" => Converts(op)
    /\ ret' = [op |-> "fault", backend |-> b, args |-> <<op, f>>,
               value |-> {Outcome(b, op, f)}]
    /\ UNCHANGED <<db, lastUpsert, upserts>>

\* The caller has the returned value and goes on to its next call.
StoreReturn ==
    /\ ret # NoRet
    /\ ret' = NoRet
    /\ UNCHANGED <<db, lastUpsert, upserts>>

BotVars == <<backend, running_jobs, tasks, sched, subs, clock>>

NextStore ==
    \/ \E w \in Wallpapers : StoreInsert(w) /\ UNCHANGED BotVars
    \/ \E b \in Backends, i \in Ids : StoreGetById(b, i) /\ UNCHANGED BotVars
    \/ \E b \in Backends, n \in Counts, c \in Ceilings, f \in SfwArgs :
          StoreGetRandom(b, n, c.max_size, c.max_width, c.max_height, f)
          /\ UNCHANGED BotVars
    \/ \E b \in Backends, op \in StoreOps, f \in Faults :
          StoreFault(b, op, f) /\ UNCHANGED BotVars
    \/ StoreReturn /\ UNCHANGED BotVars

\* ------------------------------------------------------------- the sender

\* The coroutines: 0 is the _send_wallpaper_to_chat call awaited by the sfw or
\* nsfw handler (the Application is built without concurrent updates, so one
\* handler runs at a time); c >= 1 is the task the scheduler created for the
\* subscription of chat c.
TaskIds == {0} \cup Chats \cup Subscribers

\* A coroutine that is not running.
IdleTask ==
    [pc |-> "idle", chat_id |-> None, sfw |-> "None", attempt |-> 0,
     wallpaper |-> {}, calls |-> 0, raised |-> 0, photo |-> <<>>,
     has_spoiler |-> FALSE,
     handle |-> None, wb |-> "none", ret |-> "none", exit |-> "none"]

\* asyncio.create_task(self._send_wallpaper_to_chat(chat_id, sfw)): scheduled,
\* not yet run.
CreatedTask(c, f) ==
    [IdleTask EXCEPT !.pc = "created", !.chat_id = c, !.sfw = f]

\* A coroutine that returned: value v through the return statement named e.
\* Its locals are gone; its chat_id, the value, the return statement, the
\* file_id the send returned (handle) and what insert_wallpaper answered (wb)
\* stay on record.
Returned(t, v, e) ==
    [IdleTask EXCEPT !.pc = "done", !.chat_id = t.chat_id, !.ret = v, !.exit = e,
                     !.handle = t.handle, !.wb = t.wb]

\* The guard left out: every call goes on to the try statement.
RunningNoGuard(jobs, c) == FALSE

\* if chat_id in self._running_jobs
Running(jobs, c) == c \in jobs

\* self._running_jobs.add(chat_id)
Acquire(jobs, c) == jobs \cup {c}

\* The remove left out of the finally clause.
ReleaseForgotten(jobs, c) == jobs

\* finally: self._running_jobs.remove(chat_id)
Release(jobs, c) == jobs \ {c}

\* The guard moved inside the try statement: the skip runs the finally clause.
AfterSkipReleases(jobs, c) == jobs \ {c}

\* return False above the try statement: its finally clause does not run.
AfterSkip(jobs, c) == jobs

\* The cached file_id ignored: every send uploads the URL.
PhotoArgAlwaysUrl(w) == <<"url", w.src>>

\* photo=wallpaper.file_id if wallpaper.file_id else photo=wallpaper.src
PhotoArg(w) ==
    IF w.file_id # None THEN <<"file_id", w.file_id>> ELSE <<"url", w.src>>

\* The spoiler flag never set.
HasSpoilerNever(w) == FALSE

\* has_spoiler=not wallpaper.sfw, in both send_photo calls
HasSpoiler(w) == ~w.sfw

\* An off-by-one in the last-attempt test: the attempt gives up one call early.
IsLastAttemptEarly(attempt) == attempt = Retry - 2

\* The last-attempt test left out: every failed call is followed by the sleep.
IsLastAttemptNever(attempt) == FALSE

\* if attempt == retry - 1
IsLastAttempt(attempt) == attempt = Retry - 1

\* The one wallpaper of a task's local variable.
TheWallpaper(t) == CHOOSE w \in t.wallpaper : TRUE

\* An empty selection treated like a failed call: sleep, then try again.
NoCandidateRetries(fresh) == [fresh EXCEPT !.pc = "sleep"]

\* if not wallpapers: log and return False, before the retry loop is entered.
NoCandidate(fresh) == Returned(fresh, "False", "no_candidate")

\* _send_wallpaper_to_chat(c, f) of coroutine t from its first line to its
\* first await that suspends (send_photo), or to its return. No other
\* coroutine runs in between: get_random_wallpapers is a blocking call and
\* _format_caption awaits nothing.
SendStart(t, c, f) ==
    LET fresh == CreatedTask(c, f) IN
    IF Running(running_jobs, c)
    THEN /\ tasks' = [tasks EXCEPT ![t] = Returned(fresh, "False", "skip")]
         /\ running_jobs' = AfterSkip(running_jobs, c)
         /\ UNCHANGED db
    ELSE \E res \in GetRandomWallpapers(backend, db[backend], 1, MaxSizeBytes,
                                        MaxWidth, MaxHeight, f) :
         \E err \in (IF res = {} THEN {FALSE} ELSE BOOLEAN) :
            /\ UNCHANGED db
            /\ IF res = {}
               THEN /\ tasks' = [tasks EXCEPT ![t] = NoCandidate(fresh)]
                    /\ running_jobs' = Release(Acquire(running_jobs, c), c)
               ELSE IF err
               THEN /\ tasks' = [tasks EXCEPT
                                   ![t] = Returned(fresh, "False", "error")]
                    /\ running_jobs' = Release(Acquire(running_jobs, c), c)
               ELSE /\ tasks' = [tasks EXCEPT
                                   ![t] = [fresh EXCEPT
                                             !.pc = "send", !.wallpaper = res,
                                             !.calls = 1,
                                             !.photo = PhotoArg(CHOOSE w \in res : TRUE),
                                             !.has_spoiler =
                                                 HasSpoiler(CHOOSE w \in res : TRUE)]]
                    /\ running_jobs' = Acquire(running_jobs, c)

\* /sfw (f = "True") or /nsfw (f = "False") in chat c: the handler awaits
\* _send_wallpaper_to_chat(chat_id, sfw=f).
Command(c, f) ==
    /\ tasks[0].pc \in {"idle", "done"}
    /\ SendStart(0, c, f)
    /\ UNCHANGED <<sched, subs>>

\* The event loop runs a task the scheduler created.
TaskRun(t) ==
    /\ tasks[t].pc = "created"
    /\ SendStart(t, tasks[t].chat_id, tasks[t].sfw)
    /\ UNCHANGED <<sched, subs>>

\* What a successful send_photo call of coroutine t can bring: h is
\* message.photo[-1].file_id (None when message.photo is empty), read only
\* after a send by URL; ok is the answer of insert_wallpaper, called only
\* when there is an h to store.
SendOutcomes(t) ==
    IF tasks[t].pc = "send" /\ TheWallpaper(tasks[t]).file_id = None
    THEN {<<None, TRUE>>} \cup (Handles \X BOOLEAN)
    ELSE {<<None, TRUE>>}

\* send_photo returns a message; h is message.photo[-1].file_id, None when
\* message.photo is empty. After a send by URL that returned a file_id the
\* wallpaper is written back with insert_wallpaper; when the statement fails
\* (not ok) the call ends as the repository ends a storage fault. The
\* coroutine ignores the value returned; an exception raised by the call
\* would land in the except clause of the attempt like one of send_photo.
SendOk(t, h, ok) ==
    /\ tasks[t].pc = "send"
    /\ LET w == TheWallpaper(tasks[t])
           byUrl == w.file_id = None
           w2 == [w EXCEPT !.file_id = h]
           wb == IF byUrl /\ h # None
                 THEN (IF ok THEN "True"
                       ELSE Outcome(backend, "insert_wallpaper", "storage"))
                 ELSE "none"
           u == [tasks[t] EXCEPT !.handle = IF byUrl THEN h ELSE None, !.wb = wb]
       IN  /\ db' = IF byUrl /\ h # None /\ ok
                    THEN [db EXCEPT ![backend] = InsertWallpaper(backend, db[backend], w2)]
                    ELSE db
           /\ IF wb # "raised"
              THEN /\ tasks' = [tasks EXCEPT ![t] = Returned(u, "True", "success")]
                   /\ running_jobs' = Release(running_jobs, tasks[t].chat_id)
              ELSE IF IsLastAttempt(tasks[t].attempt)
              THEN /\ tasks' = [tasks EXCEPT ![t] = Returned(u, "False", "exhausted")]
                   /\ running_jobs' = Release(running_jobs, tasks[t].chat_id)
              ELSE /\ tasks' = [tasks EXCEPT
                                  ![t] = [u EXCEPT !.pc = "sleep", !.wallpaper = {w2}]]
                   /\ UNCHANGED running_jobs
    /\ UNCHANGED <<sched, subs>>

\* The chat given up for the time of the backoff sleep.
SendFailReleases(t) ==
    /\ tasks[t].pc = "send"
    /\ LET u == [tasks[t] EXCEPT !.raised = @ + 1] IN
       IF IsLastAttempt(tasks[t].attempt)
       THEN tasks' = [tasks EXCEPT ![t] = Returned(u, "False", "exhausted")]
       ELSE tasks' = [tasks EXCEPT ![t] = [u EXCEPT !.pc = "sleep"]]
    /\ running_jobs' = Release(running_jobs, tasks[t].chat_id)
    /\ UNCHANGED <<db, sched, subs>>

\* send_photo raises: the last attempt returns False, an earlier one sleeps.
SendFail(t) ==
    /\ tasks[t].pc = "send"
    /\ LET u == [tasks[t] EXCEPT !.raised = @ + 1] IN
       IF IsLastAttempt(tasks[t].attempt)
       THEN /\ tasks' = [tasks EXCEPT ![t] = Returned(u, "False", "exhausted")]
            /\ running_jobs' = Release(running_jobs, tasks[t].chat_id)
       ELSE /\ tasks' = [tasks EXCEPT ![t] = [u EXCEPT !.pc = "sleep"]]
            /\ UNCHANGED running_jobs
    /\ UNCHANGED <<db, sched, subs>>

\* while True in place of for attempt in range(retry): after the sleep the
\* call is made again, however many were made before.
SendRetryForever(t) ==
    /\ tasks[t].pc = "sleep"
    /\ tasks' = [tasks EXCEPT
                    ![t] = [tasks[t] EXCEPT
                              !.pc = "send", !.attempt = 0, !.calls = @ + 1,
                              !.photo = PhotoArg(TheWallpaper(tasks[t])),
                              !.has_spoiler = HasSpoiler(TheWallpaper(tasks[t]))]]
    /\ UNCHANGED <<db, running_jobs, sched, subs>>

\* asyncio.sleep(1) is over: the next iteration of for attempt in range(retry)
\* calls send_photo again; past the range the function ends without a return
\* statement.
SendRetry(t) ==
    /\ tasks[t].pc = "sleep"
    /\ IF tasks[t].attempt + 1 < Retry
       THEN /\ tasks' = [tasks EXCEPT
                           ![t] = [tasks[t] EXCEPT
                                     !.pc = "send", !.attempt = @ + 1,
                                     !.calls = @ + 1,
                                     !.photo = PhotoArg(TheWallpaper(tasks[t])),
                                     !.has_spoiler = HasSpoiler(TheWallpaper(tasks[t]))]]
            /\ UNCHANGED running_jobs
       ELSE /\ tasks' = [tasks EXCEPT ![t] = Returned(tasks[t], "None", "end")]
            /\ running_jobs' = Release(running_jobs, tasks[t].chat_id)
    /\ UNCHANGED <<db, sched, subs>>

\* ---------------------------------------------------------- the scheduler

\* get_active_subscriptions: SELECT * FROM subscriptions WHERE active = TRUE;
\* the chat_ids of the rows returned.
ActiveSubscriptions(table) == {r.chat_id : r \in {x \in table : x.active}}

\* The next tasks list of the dispatch loop: random.shuffle put the
\* subscriptions in any order, and the loop takes them FanOut at a time.
Batches(pending) ==
    {B \in SUBSET pending : Cardinality(B) = Min(FanOut, Cardinality(pending))}

\* The subscription looked up again before its task is created: none is
\* created for a chat that unsubscribed in the meantime.
DispatchStillActive(B) ==
    [t \in TaskIds |->
        IF t \in B /\ t \in ActiveSubscriptions(subs) THEN CreatedTask(t, "None")
        ELSE IF t \in sched.batch THEN IdleTask
        ELSE tasks[t]]

\* asyncio.create_task for every chat of batch B; the tasks of the batch
\* gathered before are dropped with tasks = [].
Dispatch(B) ==
    [t \in TaskIds |->
        IF t \in B THEN CreatedTask(t, "None")
        ELSE IF t \in sched.batch THEN IdleTask
        ELSE tasks[t]]

\* A pool refilled as soon as one task returns.
BatchFinishedAny(batch) == \E t \in batch : tasks[t].pc = "done"

\* A gather that goes on only when every send succeeded.
BatchFinishedAllSucceeded(batch) ==
    \A t \in batch : tasks[t].pc = "done" /\ tasks[t].ret = "True"

\* The tasks awaited by asyncio.gather(*tasks) have all returned.
BatchFinished(batch) == \A t \in batch : tasks[t].pc = "done"

\* A coroutine that swallows the cancellation and goes on.
ResumableAlways(s) == TRUE

\* The scheduler coroutine goes on when the event loop resumes it. After
\* Task.cancel() the resumption raises CancelledError at the await, which
\* except Exception does not catch: the coroutine ends there.
Resumable(s) == ~s.cancelled

\* One pass of while True up to its first await. The clock is an input: with
\* no last run the cycle is due, otherwise it is due when five minutes passed.
\* fetched is the list get_active_subscriptions returned to the cycle,
\* dispatched the chats of it a task was created for, pending the rest of it.
SchedLoop(due) ==
    /\ sched.pc = "loop"
    /\ Resumable(sched)
    /\ (sched.last_run_time = "None" => due)
    /\ IF ~due
       THEN /\ sched' = [sched EXCEPT !.pc = "sleep10"]
            /\ UNCHANGED tasks
       ELSE IF ActiveSubscriptions(subs) = {}
       THEN /\ sched' = [sched EXCEPT !.last_run_time = "set"]
            /\ UNCHANGED tasks
       ELSE \E B \in Batches(ActiveSubscriptions(subs)) :
               /\ sched' = [sched EXCEPT
                               !.pc = "gather", !.last_run_time = "set",
                               !.fetched = ActiveSubscriptions(subs),
                               !.dispatched = B,
                               !.pending = ActiveSubscriptions(subs) \ B,
                               !.batch = B]
               /\ tasks' = Dispatch(B)
    /\ UNCHANGED <<db, running_jobs, subs>>

\* await asyncio.gather(*tasks) returns when every task of the batch is done;
\* the loop then creates the next batch, or ends the cycle and sleeps 60 s.
SchedGather ==
    /\ sched.pc = "gather"
    /\ Resumable(sched)
    /\ BatchFinished(sched.batch)
    /\ IF sched.pending = {}
       THEN /\ sched' = [sched EXCEPT !.pc = "sleep60", !.batch = {},
                                       !.fetched = {}, !.dispatched = {}]
            /\ tasks' = [t \in TaskIds |->
                            IF t \in sched.batch THEN IdleTask ELSE tasks[t]]
       ELSE \E B \in Batches(sched.pending) :
               /\ sched' = [sched EXCEPT !.pending = @ \ B,
                                          !.dispatched = @ \cup B, !.batch = B]
               /\ tasks' = Dispatch(B)
    /\ UNCHANGED <<db, running_jobs, subs>>

\* asyncio.sleep(10) or asyncio.sleep(60) is over.
SchedWake ==
    /\ sched.pc \in {"sleep10", "sleep60"}
    /\ Resumable(sched)
    /\ sched' = [sched EXCEPT !.pc = "loop"]
    /\ UNCHANGED <<db, running_jobs, tasks, subs>>

\* self._task.cancel() in run(). The scheduler task is marked; when it waits
\* in asyncio.gather, gather passes the cancellation to the tasks of the
\* batch that have not returned: one not yet started will never start, one
\* suspended in send_photo or asyncio.sleep gets CancelledError there.
Cancel ==
    /\ ~sched.cancelled
    /\ sched.pc # "ended"
    /\ sched' = [sched EXCEPT !.cancelled = TRUE]
    /\ tasks' = [t \in TaskIds |->
                    IF sched.pc = "gather" /\ t \in sched.batch
                       /\ tasks[t].pc \in {"created", "send", "sleep"}
                    THEN [tasks[t] EXCEPT
                            !.pc = IF @ = "created" THEN "cancel_created"
                                   ELSE "cancel_inflight"]
                    ELSE tasks[t]]
    /\ UNCHANGED <<db, running_jobs, subs>>

\* The event loop resumes the cancelled scheduler: CancelledError leaves
\* while True.
SchedEnd ==
    /\ sched.cancelled
    /\ sched.pc # "ended"
    /\ sched' = [sched EXCEPT !.pc = "ended"]
    /\ UNCHANGED <<db, running_jobs, tasks, subs>>

\* The event loop resumes a cancelled send: CancelledError passes both except
\* Exception clauses and the finally clause removes the chat_id; a task
\* cancelled before its first step runs no line of the coroutine.
TaskCancelled(t) ==
    /\ tasks[t].pc \in {"cancel_created", "cancel_inflight"}
    /\ tasks' = [tasks EXCEPT ![t] = Returned(tasks[t], "None", "cancelled")]
    /\ running_jobs' = IF tasks[t].pc = "cancel_inflight"
                       THEN Release(running_jobs, tasks[t].chat_id)
                       ELSE running_jobs
    /\ UNCHANGED <<db, sched, subs>>

\* ------------------------------------------------- handlers and the crawler

\* chat.type of chat c, one of the values of ChatType.
ChatKind(c) ==
    CASE c % 4 = 1 -> "channel"
      [] c % 4 = 2 -> "private"
      [] c % 4 = 3 -> "group"
      [] OTHER -> "supergroup"

\* A Subscription (common/model.py) as the handlers build it; active is the
\* Python value passed: "True", "False", or "None" when the handler read no
\* can_post_messages. title, username, the timestamps and extra_info play no
\* part in what follows and are left out.
Subscription(c, kind, is_admin, active) ==
    [chat_id |-> c, chat_type |-> kind, is_admin |-> is_admin, active |-> active]

\* The row a Subscription is stored as: column active is a BOOLEAN.
SubscriptionRow(s, active) == [s EXCEPT !.active = active]

\* SqliteRepository.add_subscription: INSERT OR REPLACE replaces the row of
\* the chat_id; for a NULL in the NOT NULL DEFAULT TRUE column active, OR
\* REPLACE stores the default.
SqliteAddSubscription(table, s) ==
    {r \in table : r.chat_id # s.chat_id}
        \cup {SubscriptionRow(s, IF s.active = "None" THEN TRUE ELSE s.active = "True")}

\* ON CONFLICT (chat_id) DO NOTHING: the row of an earlier subscription stays.
PostgresAddSubscriptionDoNothing(table, s) ==
    IF s.active = "None" \/ \E r \in table : r.chat_id = s.chat_id
    THEN table
    ELSE table \cup {SubscriptionRow(s, s.active = "True")}

\* PostgresRepository.add_subscription: ON CONFLICT (chat_id) DO UPDATE SET
\* chat_type, title, username, is_admin, updated_at, active, extra_info; a
\* NULL active violates NOT NULL, the error is caught and nothing is written.
PostgresAddSubscription(table, s) ==
    IF s.active = "None"
    THEN table
    ELSE {r \in table : r.chat_id # s.chat_id}
            \cup {SubscriptionRow(s, s.active = "True")}

\* add_subscription of backend b.
AddSubscription(b, table, s) ==
    IF b = "sqlite" THEN SqliteAddSubscription(table, s)
    ELSE PostgresAddSubscription(table, s)

\* The row deleted instead of updated.
DeactivateSubscriptionDeletes(table, c) ==
    {r \in table : r.chat_id # c}

\* deactivate_subscription: update_subscription(chat_id, {"active": False,
\* "updated_at": now}), an UPDATE ... WHERE chat_id = ? on either backend.
DeactivateSubscription(table, c) ==
    {IF r.chat_id = c THEN [r EXCEPT !.active = FALSE] ELSE r : r \in table}

\* get_subscription: SELECT * FROM subscriptions WHERE chat_id = ?; {} stands
\* for None.
GetSubscription(table, c) == {r \in table : r.chat_id = c}

\* /subscribe in chat c: add_subscription with is_admin=False, active=True.
Subscribe(c) ==
    /\ tasks[0].pc \in {"idle", "done"}
    /\ subs' = AddSubscription(backend, subs,
                               Subscription(c, ChatKind(c), FALSE, "True"))
    /\ UNCHANGED <<db, running_jobs, tasks, sched>>

\* /unsubscribe in chat c: deactivate_subscription updates the row if there
\* is one.
Unsubscribe(c) ==
    /\ tasks[0].pc \in {"idle", "done"}
    /\ subs' = DeactivateSubscription(subs, c)
    /\ UNCHANGED <<db, running_jobs, tasks, sched>>

\* new_chat_member.status of a my_chat_member update.
Statuses == {"administrator", "member", "left", "kicked", "restricted"}

\* new_chat_member.can_post_messages: a boolean, or None when the update
\* carries none.
PostFlags == {"True", "False", "None"}

\* The test of the chat type left out: an update of any chat is acted on.
MemberUpdateAnyChat(c, status, flag) ==
    /\ tasks[0].pc \in {"idle", "done"}
    /\ subs' =
          IF status \in {"administrator", "member"}
          THEN AddSubscription(backend, subs,
                               Subscription(c, ChatKind(c), status = "administrator", flag))
          ELSE IF status \in {"left", "kicked"}
          THEN DeactivateSubscription(subs, c)
          ELSE subs
    /\ UNCHANGED <<db, running_jobs, tasks, sched>>

\* handle_chat_member_update for chat c: only a channel is looked at;
\* administrator or member stores a subscription built from the update, left
\* or kicked deactivates the one there is.
MemberUpdate(c, status, flag) ==
    /\ tasks[0].pc \in {"idle", "done"}
    /\ subs' =
          IF ChatKind(c) # "channel" THEN subs
          ELSE IF status \in {"administrator", "member"}
          THEN AddSubscription(backend, subs,
                               Subscription(c, "channel", status = "administrator", flag))
          ELSE IF status \in {"left", "kicked"}
          THEN DeactivateSubscription(subs, c)
          ELSE subs
    /\ UNCHANGED <<db, running_jobs, tasks, sched>>

\* The shapes of the images the crawled sites serve.
CrawlShapes == {sh \in Shapes : sh.width <= MaxWidth /\ sh.height <= MaxHeight}

\* The crawlers: WallhavenSpider, UnsplashSpider, CivitaiSpider,
\* WallhereSpider.
Spiders == {"wallhaven", "unsplash", "civitai", "wallhere"}

\* A crawler that hashes the address of the page it found the image on: for
\* one src it yields another id than the other crawlers.
WallpaperIdFromPage(spider, src) ==
    IF spider = "wallhere" THEN Md5(src + MaxSrcs) ELSE Md5(src)

\* md5 = hashlib.md5(); md5.update(src.encode("utf-8")); id = md5.hexdigest(),
\* the same three lines in the collect_wallpaper of every spider.
WallpaperId(spider, src) == Md5(src)

\* collect_wallpaper of a spider: id is the MD5 of src, file_id=None, and the
\* record goes to insert_wallpaper. UnsplashSpider marks every record sfw.
\* The spiders run in a process of their own.
Collect(spider, src, shape, f) ==
    /\ spider = "unsplash" => f
    /\ db' = [db EXCEPT ![backend] =
                 InsertWallpaper(backend, db[backend],
                                 [Wallpaper(src, shape, f, None) EXCEPT
                                    !.id = WallpaperId(spider, src)])]
    /\ UNCHANGED <<running_jobs, tasks, sched, subs>>

\* A record collected while the bot runs.
Ingest(src, shape, f) ==
    \E spider \in {"wallhaven"} : Collect(spider, src, shape, f)

\* ------------------------------------------------------ the specifications

StoreVars == <<ret, lastUpsert, upserts>>

\* The clock before the scheduler read it: no cycle has run, nothing sleeps.
\* since_run is now - self._last_run_time and since_fetch the time since the
\* last get_active_subscriptions call (Never before the first), slept the
\* time the scheduler has spent in its current asyncio.sleep, cycles how each
\* cycle so far went on after its fetch.
Never == -1
NoClock == [since_run |-> Never, since_fetch |-> Never, slept |-> 0, cycles |-> <<>>]

BotInit ==
    /\ backend \in Backends
    /\ running_jobs = {}
    /\ tasks = [t \in TaskIds |-> IdleTask]
    /\ sched = [pc |-> "loop", last_run_time |-> "None", fetched |-> {},
                dispatched |-> {}, pending |-> {}, batch |-> {},
                cancelled |-> FALSE]
    /\ subs = {}
    /\ clock = NoClock

Init == InitStore /\ BotInit

Next ==
    \/ \E c \in Chats, f \in {"True", "False"} :
          Command(c, f) /\ UNCHANGED <<StoreVars, backend, clock>>
    \/ \E t \in TaskIds : TaskRun(t) /\ UNCHANGED <<StoreVars, backend, clock>>
    \/ \E t \in TaskIds : \E o \in SendOutcomes(t) :
          SendOk(t, o[1], o[2]) /\ UNCHANGED <<StoreVars, backend, clock>>
    \/ \E t \in TaskIds : SendFail(t) /\ UNCHANGED <<StoreVars, backend, clock>>
    \/ \E t \in TaskIds : SendRetry(t) /\ UNCHANGED <<StoreVars, backend, clock>>
    \/ \E due \in BOOLEAN : SchedLoop(due) /\ UNCHANGED <<StoreVars, backend, clock>>
    \/ SchedGather /\ UNCHANGED <<StoreVars, backend, clock>>
    \/ SchedWake /\ UNCHANGED <<StoreVars, backend, clock>>
    \/ \E c \in Chats : Subscribe(c) /\ UNCHANGED <<StoreVars, backend, clock>>
    \/ \E c \in Chats : Unsubscribe(c) /\ UNCHANGED <<StoreVars, backend, clock>>
    \/ \E s \in CrawlSrcs, sh \in CrawlShapes, f \in BOOLEAN :
          Ingest(s, sh, f) /\ UNCHANGED <<StoreVars, backend, clock>>

Spec == Init /\ [][Next]_vars

\* The contract run does not use the bot: its repository is left at one value.
InitContract == Init /\ backend = "sqlite"

SpecStore == InitContract /\ [][NextStore]_vars

\* The scheduler run: the cadence loop and the sends it dispatches, started
\* with every chat of Subscribers subscribed and one wallpaper, already sent
\* once, in the embedded store; the process can be shut down at any moment.
InitSched ==
    /\ ret = NoRet
    /\ lastUpsert = [i \in Ids |-> {}]
    /\ upserts = 0
    /\ backend = "sqlite"
    /\ running_jobs = {}
    /\ tasks = [t \in TaskIds |-> IdleTask]
    /\ sched = [pc |-> "loop", last_run_time |-> "None", fetched |-> {},
                dispatched |-> {}, pending |-> {}, batch |-> {},
                cancelled |-> FALSE]
    /\ subs = {SubscriptionRow(Subscription(c, ChatKind(c), FALSE, "True"), TRUE) :
                  c \in Subscribers}
    /\ clock = NoClock
    /\ \E sh \in {x \in CrawlShapes : x.size <= MaxSizeBytes} :
          db = [b \in Backends |->
                  IF b = backend THEN {Wallpaper(1, sh, TRUE, 1)} ELSE {}]

ProgressSched ==
    \/ \E t \in TaskIds : TaskRun(t) /\ UNCHANGED <<StoreVars, backend, clock>>
    \/ \E t \in TaskIds : \E o \in SendOutcomes(t) :
          SendOk(t, o[1], o[2]) /\ UNCHANGED <<StoreVars, backend, clock>>
    \/ \E t \in TaskIds : SendFail(t) /\ UNCHANGED <<StoreVars, backend, clock>>
    \/ \E t \in TaskIds : SendRetry(t) /\ UNCHANGED <<StoreVars, backend, clock>>
    \/ \E due \in BOOLEAN : SchedLoop(due) /\ UNCHANGED <<StoreVars, backend, clock>>
    \/ SchedGather /\ UNCHANGED <<StoreVars, backend, clock>>
    \/ SchedWake /\ UNCHANGED <<StoreVars, backend, clock>>
    \/ SchedEnd /\ UNCHANGED <<StoreVars, backend, clock>>
    \/ \E t \in TaskIds : TaskCancelled(t) /\ UNCHANGED <<StoreVars, backend, clock>>

NextSched ==
    \/ ProgressSched
    \/ Cancel /\ UNCHANGED <<StoreVars, backend, clock>>

SpecSched == InitSched /\ [][NextSched]_vars

\* The event loop runs whatever is ready: a send_photo call returns or
\* raises, a sleep ends, a task whose wait is over is resumed.
FairSpecSched == SpecSched /\ WF_vars(ProgressSched)

\* The subscription lifecycle run: the handlers that write table
\* subscriptions, one update at a time. ret keeps the handler that ran last,
\* its inputs, and the row its chat had before it ran.
Event(op, c, args) ==
    [op |-> op, backend |-> backend, args |-> <<c>> \o args,
     value |-> GetSubscription(subs, c)]

OnSubscribe(c) ==
    /\ Subscribe(c)
    /\ ret' = Event("subscribe", c, <<>>)
    /\ UNCHANGED <<lastUpsert, upserts, backend, clock>>

OnUnsubscribe(c) ==
    /\ Unsubscribe(c)
    /\ ret' = Event("unsubscribe", c, <<>>)
    /\ UNCHANGED <<lastUpsert, upserts, backend, clock>>

OnMemberUpdate(c, status, flag) ==
    /\ MemberUpdate(c, status, flag)
    /\ ret' = Event("my_chat_member", c, <<status, flag>>)
    /\ UNCHANGED <<lastUpsert, upserts, backend, clock>>

NextSubs ==
    \/ \E c \in Chats : OnSubscribe(c)
    \/ \E c \in Chats : OnUnsubscribe(c)
    \/ \E c \in Chats, status \in Statuses, flag \in PostFlags :
          OnMemberUpdate(c, status, flag)

SpecSubs == Init /\ [][NextSubs]_vars

\* ------------------------------------------------ the column conversions

\* Bounds of the conversion run: the longest tag or color, in characters, and
\* the longest tags list.
MaxTagLen == 2
MaxTags == 2

\* A string is the sequence of its characters; the characters that matter are
\* the delimiter and any other one.
Chars == {"a", ","}
Strings == UNION {[1..n -> Chars] : n \in 0..MaxTagLen}
TagLists == UNION {[1..n -> Strings] : n \in 0..MaxTags}
ColorLists == {l \in TagLists : Len(l) <= 1}

\* extra_info as the spiders build it: a dict with string keys, given by its
\* keys.
ExtraInfos == {<<>>, <<"k">>}

RECURSIVE Join(_)
\* ",".join(list)
Join(list) ==
    IF list = <<>> THEN <<>>
    ELSE IF Len(list) = 1 THEN list[1]
    ELSE list[1] \o <<",">> \o Join(Tail(list))

RECURSIVE Split(_)
\* text.split(","): the pieces between the delimiters; the empty text has one
\* empty piece.
Split(text) ==
    IF \A i \in 1..Len(text) : text[i] # ","
    THEN <<text>>
    ELSE LET i == CHOOSE j \in 1..Len(text) :
                     text[j] = "," /\ \A k \in 1..(j - 1) : text[k] # ","
         IN  <<SubSeq(text, 1, i - 1)>> \o Split(SubSeq(text, i + 1, Len(text)))

\* json.dumps(extra_info) and json.loads of its text.
JsonDumps(d) == <<"{">> \o d \o <<"}">>
JsonLoads(text) == SubSeq(text, 2, Len(text) - 1)

\* A TEXT column of table wallpapers written by SqliteRepository.insert_wallpaper
\* from a list and read back by get_wallpaper_by_id:
\* row[7].split(",") if row[7] else [].
SqliteListColumn(list) ==
    LET text == Join(list) IN IF text = <<>> THEN <<>> ELSE Split(text)

\* extra_info TEXT: json.loads(row[16]) if row[16] else {}.
SqliteJsonColumn(d) ==
    LET text == JsonDumps(d) IN IF text = <<>> THEN <<>> ELSE JsonLoads(text)

\* A TEXT[] column of PostgresRepository keeps the list element by element;
\* _row_to_wallpaper reads row["tags"] or [].
PostgresListColumn(list) == IF list = <<>> THEN <<>> ELSE list

\* extra_info JSONB, written as json.dumps(extra_info) and returned parsed.
PostgresJsonColumn(d) == JsonLoads(JsonDumps(d))

\* insert_wallpaper(w) followed by get_wallpaper_by_id(w.id) on backend b, for
\* the three converted columns of w.
RoundTrip(b, w) ==
    IF b = "sqlite"
    THEN [tags |-> SqliteListColumn(w.tags), colors |-> SqliteListColumn(w.colors),
          extra_info |-> SqliteJsonColumn(w.extra_info)]
    ELSE [tags |-> PostgresListColumn(w.tags), colors |-> PostgresListColumn(w.colors),
          extra_info |-> PostgresJsonColumn(w.extra_info)]

\* The conversion run: a backend and the converted fields of a wallpaper are
\* chosen, then the wallpaper is upserted and read back by id.
InitCodec ==
    /\ BotInit
    /\ db = [b \in Backends |-> {}]
    /\ lastUpsert = [i \in Ids |-> {}]
    /\ upserts = 0
    /\ \E t \in TagLists, c \in ColorLists, e \in ExtraInfos :
          ret = [op |-> "wallpaper", backend |-> backend,
                 args |-> [tags |-> t, colors |-> c, extra_info |-> e],
                 value |-> {}]

UpsertAndGet ==
    /\ ret.op = "wallpaper"
    /\ ret' = [ret EXCEPT !.op = "upsert_get",
                          !.value = {RoundTrip(ret.backend, ret.args)}]
    /\ UNCHANGED <<db, lastUpsert, upserts, BotVars>>

SpecCodec == InitCodec /\ [][UpsertAndGet]_vars

\* The crawl run: the spiders ingest into one store; ret keeps the spider and
\* the src of the last record and the id it was stored under.
OnCollect(spider, src, shape, f) ==
    /\ Collect(spider, src, shape, f)
    /\ ret' = [op |-> "collect_wallpaper", backend |-> backend,
               args |-> <<spider, src>>, value |-> {WallpaperId(spider, src)}]
    /\ UNCHANGED <<lastUpsert, upserts, backend, clock>>

NextCrawl ==
    \E spider \in Spiders, s \in Srcs, sh \in CrawlShapes, f \in BOOLEAN :
        OnCollect(spider, s, sh, f)

SpecCrawl == Init /\ [][NextCrawl]_vars

\* ------------------------------------------------------------ the timed run

\* Time in units of 10 seconds: timedelta(minutes=5), asyncio.sleep(10) and
\* asyncio.sleep(60).
Cooldown == 30
PollSleep == 1
CycleSleep == 6

\* The cycles the timed run follows.
MaxFetches == 3

\* The due check left out: every pass of the loop starts a cycle.
DueAlways(c) == TRUE

\* if self._last_run_time and now - self._last_run_time < timedelta(minutes=5)
\* is false: there was no run yet, or the last one is five minutes old.
Due(c) == c.since_run = Never \/ c.since_run >= Cooldown

\* Time passes while the coroutines are suspended. Past the durations the
\* code compares with, a longer wait changes nothing.
Tick ==
    /\ clock' = [clock EXCEPT
                   !.since_run = IF @ = Never THEN Never ELSE Min(@ + 1, Cooldown),
                   !.since_fetch = IF @ = Never THEN Never ELSE Min(@ + 1, Cooldown),
                   !.slept = Min(@ + 1, CycleSleep)]
    /\ clock' # clock
    /\ UNCHANGED <<db, running_jobs, tasks, sched, subs>>

\* The clock after self._last_run_time = now and the fetch that follows it in
\* the same pass; how is what the cycle went on to do.
Stamped(how) ==
    [since_run |-> 0, since_fetch |-> 0, slept |-> 0,
     cycles |-> Append(clock.cycles, how)]

\* SchedLoop with now = datetime.now() read from the clock.
TimedLoop ==
    /\ SchedLoop(Due(clock))
    /\ Due(clock) => Len(clock.cycles) < MaxFetches
    /\ clock' = IF Due(clock)
                THEN Stamped(IF ActiveSubscriptions(subs) = {} THEN "empty" ELSE "sent")
                ELSE [clock EXCEPT !.slept = 0]

\* A due pass whose try body raises after the timestamp was set and before a
\* task was created: except Exception logs, and the loop sleeps 60 s.
TimedRaise ==
    /\ sched.pc = "loop"
    /\ Resumable(sched)
    /\ Due(clock)
    /\ Len(clock.cycles) < MaxFetches
    /\ sched' = [sched EXCEPT !.pc = "sleep60", !.last_run_time = "set"]
    /\ clock' = Stamped("error")
    /\ UNCHANGED <<db, running_jobs, tasks, subs>>

\* SchedGather; the sleep that follows the last batch starts now.
TimedGather ==
    /\ SchedGather
    /\ clock' = [clock EXCEPT !.slept = 0]

\* SchedWake, no earlier than the duration asked of asyncio.sleep.
TimedWake ==
    /\ SchedWake
    /\ clock.slept >= (IF sched.pc = "sleep10" THEN PollSleep ELSE CycleSleep)
    /\ clock' = clock

\* The timed run: the cadence loop with a clock, the sends it dispatches and
\* the chats of Chats subscribing and unsubscribing; one wallpaper, already
\* sent once, is in the embedded store.
InitClock ==
    /\ ret = NoRet
    /\ lastUpsert = [i \in Ids |-> {}]
    /\ upserts = 0
    /\ backend = "sqlite"
    /\ running_jobs = {}
    /\ tasks = [t \in TaskIds |-> IdleTask]
    /\ sched = [pc |-> "loop", last_run_time |-> "None", fetched |-> {},
                dispatched |-> {}, pending |-> {}, batch |-> {},
                cancelled |-> FALSE]
    /\ subs = {SubscriptionRow(Subscription(c, ChatKind(c), FALSE, "True"), TRUE) :
                  c \in Chats}
    /\ clock = NoClock
    /\ \E sh \in {x \in CrawlShapes : x.size <= MaxSizeBytes} :
          db = [b \in Backends |->
                  IF b = backend THEN {Wallpaper(1, sh, TRUE, 1)} ELSE {}]

NextClock ==
    \/ \E t \in TaskIds : TaskRun(t) /\ UNCHANGED <<StoreVars, backend, clock>>
    \/ \E t \in TaskIds : \E o \in SendOutcomes(t) :
          SendOk(t, o[1], o[2]) /\ UNCHANGED <<StoreVars, backend, clock>>
    \/ \E t \in TaskIds : SendFail(t) /\ UNCHANGED <<StoreVars, backend, clock>>
    \/ \E t \in TaskIds : SendRetry(t) /\ UNCHANGED <<StoreVars, backend, clock>>
    \/ TimedLoop /\ UNCHANGED <<StoreVars, backend>>
    \/ TimedRaise /\ UNCHANGED <<StoreVars, backend>>
    \/ TimedGather /\ UNCHANGED <<StoreVars, backend>>
    \/ TimedWake /\ UNCHANGED <<StoreVars, backend>>
    \/ Tick /\ UNCHANGED <<StoreVars, backend>>
    \/ \E c \in Chats : Subscribe(c) /\ UNCHANGED <<StoreVars, backend, clock>>
    \/ \E c \in Chats : Unsubscribe(c) /\ UNCHANGED <<StoreVars, backend, clock>>

SpecClock == InitClock /\ [][NextClock]_vars

\* The cycle run: the scheduler run with the subscribers unsubscribing while
\* a cycle is under way.
NextCycle ==
    \/ NextSched
    \/ \E c \in Subscribers : Unsubscribe(c) /\ UNCHANGED <<StoreVars, backend, clock>>

SpecCycle == InitSched /\ [][NextCycle]_vars

\* ------------------------------------------------------------- the send run

\* A shape under every ceiling of the bot.
Fits(sh) == sh.size <= MaxSizeBytes /\ sh.width <= MaxWidth /\ sh.height <= MaxHeight

\* The send run: on-demand and scheduled sends over a store the crawlers have
\* filled and left: a safe image that fits, never sent, and a second image,
\* not safe and of any shape, never sent either. Every chat of Chats is
\* subscribed.
InitSend ==
    /\ ret = NoRet
    /\ lastUpsert = [i \in Ids |-> {}]
    /\ upserts = 0
    /\ backend \in Backends
    /\ running_jobs = {}
    /\ tasks = [t \in TaskIds |-> IdleTask]
    /\ sched = [pc |-> "loop", last_run_time |-> "None", fetched |-> {},
                dispatched |-> {}, pending |-> {}, batch |-> {},
                cancelled |-> FALSE]
    /\ subs = {SubscriptionRow(Subscription(c, ChatKind(c), FALSE, "True"), TRUE) :
                  c \in Chats}
    /\ clock = NoClock
    /\ \E sh1 \in {x \in Shapes : Fits(x)}, sh2 \in Shapes :
          db = [b \in Backends |->
                  IF b = backend
                  THEN {Wallpaper(1, sh1, TRUE, None), Wallpaper(2, sh2, FALSE, None)}
                  ELSE {}]

\* send_photo returned a message to coroutine t: the chat has the image. ret
\* keeps the ids of the images delivered so far.
OnDelivered(t, h, ok) ==
    /\ SendOk(t, h, ok)
    /\ ret' = [op |-> "send_photo", backend |-> backend, args |-> <<>>,
               value |-> (IF ret.op = "send_photo" THEN ret.value ELSE {})
                            \cup {TheWallpaper(tasks[t]).id}]
    /\ UNCHANGED <<lastUpsert, upserts, backend, clock>>

NextSend ==
    \/ \E c \in Chats, f \in {"True", "False"} :
          Command(c, f) /\ UNCHANGED <<StoreVars, backend, clock>>
    \/ \E t \in TaskIds : TaskRun(t) /\ UNCHANGED <<StoreVars, backend, clock>>
    \/ \E t \in TaskIds : \E o \in SendOutcomes(t) : OnDelivered(t, o[1], o[2])
    \/ \E t \in TaskIds : SendFail(t) /\ UNCHANGED <<StoreVars, backend, clock>>
    \/ \E t \in TaskIds : SendRetry(t) /\ UNCHANGED <<StoreVars, backend, clock>>
    \/ \E due \in BOOLEAN : SchedLoop(due) /\ UNCHANGED <<StoreVars, backend, clock>>
    \/ SchedGather /\ UNCHANGED <<StoreVars, backend, clock>>
    \/ SchedWake /\ UNCHANGED <<StoreVars, backend, clock>>

SpecSend == InitSend /\ [][NextSend]_vars

\* ----------------------------------------------------------- the update run

\* The timestamps of the update run: created_at, updated_at and the
\* datetime.now() of a call are among 1..MaxStamp.
MaxStamp == 2
Stamps == 1..MaxStamp

\* A row of table subscriptions with its nine columns. title, username and
\* created_at are what the chat supplied when it first subscribed.
FullSubscriptionRow(c, is_admin, updated_at, active, extra_info) ==
    [chat_id |-> c, chat_type |-> ChatKind(c), title |-> <<"title", c>>,
     username |-> <<"user", c>>, is_admin |-> is_admin, created_at |-> 1,
     updated_at |-> updated_at, active |-> active, extra_info |-> extra_info]

FullSubscriptionRows(c) ==
    {FullSubscriptionRow(c, a, u, act, e) :
        a \in BOOLEAN, u \in Stamps, act \in BOOLEAN, e \in ExtraInfos}

\* The tables the update run starts from: at most one row per chat.
SubscriptionTables ==
    {UNION {f[c] : c \in Chats} :
        f \in {g \in [Chats -> {{}} \cup {{r} : r \in UNION {FullSubscriptionRows(c) :
                                                              c \in Chats}}] :
                  \A c \in Chats : \A r \in g[c] : r.chat_id = c}}

\* is_admin cleared along with active.
DeactivateUpdatesAdmin(now) ==
    [active |-> FALSE, updated_at |-> now, is_admin |-> FALSE]

\* The updates deactivate_subscription passes:
\* {"active": False, "updated_at": datetime.now()}.
DeactivateUpdates(now) == [active |-> FALSE, updated_at |-> now]

\* UPDATE subscriptions SET k = ?, ... WHERE chat_id = ?: the columns named
\* in updates are set in the rows of the chat, on either backend. Without
\* updates no statement runs.
UpdateSubscription(table, c, updates) ==
    {IF r.chat_id = c
     THEN [col \in DOMAIN r |->
              IF col \in DOMAIN updates THEN updates[col] ELSE r[col]]
     ELSE r : r \in table}

\* What update_subscription returns: True without updates, otherwise
\* cursor.rowcount > 0.
UpdateReturns(table, c, updates) ==
    IF DOMAIN updates = {} THEN "True"
    ELSE IF Cardinality({r \in table : r.chat_id = c}) > 0 THEN "True"
    ELSE "False"

\* The update run: deactivate_subscription(c) called at time now on any
\* table. ret keeps the arguments, the table before the call and the value
\* returned.
InitUpdate ==
    /\ InitStore
    /\ backend \in Backends
    /\ running_jobs = {}
    /\ tasks = [t \in TaskIds |-> IdleTask]
    /\ sched = [pc |-> "loop", last_run_time |-> "None", fetched |-> {},
                dispatched |-> {}, pending |-> {}, batch |-> {},
                cancelled |-> FALSE]
    /\ subs \in SubscriptionTables
    /\ clock = NoClock

OnDeactivate(c, now) ==
    /\ subs' = UpdateSubscription(subs, c, DeactivateUpdates(now))
    /\ ret' = [op |-> "deactivate_subscription", backend |-> backend,
               args |-> <<c, now, subs>>,
               value |-> {UpdateReturns(subs, c, DeactivateUpdates(now))}]
    /\ UNCHANGED <<db, lastUpsert, upserts, backend, running_jobs, tasks, sched,
                   clock>>

NextUpdate == \E c \in Chats, now \in Stamps : OnDeactivate(c, now)

SpecUpdate == InitUpdate /\ [][NextUpdate]_vars

\* ------------------------------------------------------------- the claims

\* A coroutine between self._running_jobs.add(chat_id) and the remove of its
\* finally clause: it is suspended in send_photo or in asyncio.sleep(1).
InFlight(t) == tasks[t].pc \in {"send", "sleep", "cancel_inflight"}

InFlightOn(c) == {t \in TaskIds : InFlight(t) /\ tasks[t].chat_id = c}

\* Coroutine t returns through the guard's return False in this step.
SkipStep(t) == tasks'[t].exit = "skip" /\ tasks'[t] # tasks[t]

\* C1: at every instant at most one _send_wallpaper_to_chat per chat_id is
\* between its insertion into _running_jobs and its release, whichever path
\* (command or scheduler) started it, and the one that is holds the entry.
C1_SingleFlight ==
    \A c \in Chats :
        /\ Cardinality(InFlightOn(c)) <= 1
        /\ (InFlightOn(c) # {} => c \in running_jobs)

\* The scheduler's send to chat 1 was skipped while the command's send to
\* chat 1 is in flight.
C1_Witness ==
    /\ InFlight(0) /\ tasks[0].chat_id = 1
    /\ tasks[1].pc = "done" /\ tasks[1].exit = "skip"

\* C2: a send attempt that finds its chat_id in _running_jobs returns False
\* at once: it was not in flight before the step and is done after it (no
\* send_photo call), the store and _running_jobs are as before, its chat_id
\* is still held, no other coroutine is created or changed, and exactly one
\* coroutine is in flight for that chat, which has called send_photo.
C2_SkipLeavesHolder ==
    [][\A t \in TaskIds :
          SkipStep(t) =>
            /\ ~InFlight(t)
            /\ tasks'[t].pc = "done" /\ tasks'[t].ret = "False"
            /\ db' = db
            /\ running_jobs' = running_jobs
            /\ tasks'[t].chat_id \in running_jobs'
            /\ \A u \in TaskIds \ {t} : tasks'[u] = tasks[u]
            /\ Cardinality({u \in TaskIds \ {t} :
                              /\ tasks'[u].pc \in {"send", "sleep"}
                              /\ tasks'[u].chat_id = tasks'[t].chat_id
                              /\ tasks'[u].calls >= 1}) = 1]_vars

\* The command's send to chat 1 was skipped while the scheduler's send to
\* chat 1 is in flight, its send_photo call made.
C2_Witness ==
    /\ tasks[0].pc = "done" /\ tasks[0].exit = "skip" /\ tasks[0].chat_id = 1
    /\ InFlight(1) /\ tasks[1].calls >= 1
    /\ 1 \in running_jobs

\* C3: _running_jobs holds exactly the chats of the coroutines in flight, so
\* a coroutine that finished (success, no candidate, exhausted retries, or an
\* exception) no longer holds its chat_id; and a send attempt is skipped only
\* when another coroutine is in flight for its chat, so an attempt after the
\* finish proceeds.
C3_ReleasedOnFinish ==
    /\ [](running_jobs = {c \in Chats : InFlightOn(c) # {}})
    /\ [][\A t \in TaskIds :
            SkipStep(t) => InFlightOn(tasks'[t].chat_id) # {}]_vars

\* The command's send to chat 1 ran out of retries, and the scheduler's send
\* to chat 1 after it is in flight.
C3_Witness ==
    /\ tasks[0].pc = "done" /\ tasks[0].exit = "exhausted" /\ tasks[0].chat_id = 1
    /\ InFlight(1)

\* C4: one send attempt calls send_photo at most 3 times; it gives up only
\* after a third call raised, and then returns False; after an earlier call
\* that raised it sleeps and calls again.
C4_RetryBudget ==
    /\ [](\A t \in TaskIds : tasks[t].calls <= 3 /\ tasks[t].raised <= tasks[t].calls)
    /\ [][\A t \in TaskIds :
            /\ (tasks[t].pc = "send" /\ tasks'[t].pc = "done"
                  /\ tasks'[t].exit # "success")
               => /\ tasks[t].calls = 3 /\ tasks[t].raised = 2
                  /\ tasks'[t].exit = "exhausted" /\ tasks'[t].ret = "False"
            /\ (tasks[t].pc = "sleep" /\ tasks'[t] # tasks[t])
               => /\ tasks'[t].pc = "send"
                  /\ tasks'[t].calls = tasks[t].calls + 1]_vars

\* A send attempt gave up after its calls raised.
C4_Witness ==
    \E t \in TaskIds : tasks[t].pc = "done" /\ tasks[t].exit = "exhausted"

\* The row of wallpaper id in the bot's repository ({} when there is none).
Stored(table, id) == {r \in table[backend] : r.id = id}

\* C5: send_photo is called with the wallpaper's file_id when it has one and
\* with its src otherwise; a successful send by URL that returned a file_id
\* passes the wallpaper with that file_id to insert_wallpaper, after which
\* (unless the store reports failure) the stored row carries it; a successful
\* send by file_id, or one that returned no file_id, leaves the store alone.
C5_PhotoAndWriteBack ==
    /\ [](\A t \in TaskIds :
            tasks[t].pc = "send" =>
              LET w == CHOOSE x \in tasks[t].wallpaper : TRUE IN
              tasks[t].photo = IF w.file_id # None THEN <<"file_id", w.file_id>>
                               ELSE <<"url", w.src>>)
    /\ [][\A t \in TaskIds :
            (tasks[t].pc = "send" /\ tasks'[t].pc = "done"
               /\ tasks'[t].exit = "success")
            => LET w == CHOOSE x \in tasks[t].wallpaper : TRUE
                   h == tasks'[t].handle
               IN  IF tasks[t].photo[1] = "url" /\ h # None
                   THEN /\ tasks'[t].wb \in {"True", "False"}
                        /\ tasks'[t].wb = "True" =>
                             /\ Stored(db', w.id) # {}
                             /\ \A r \in Stored(db', w.id) : r.file_id = h
                        /\ tasks'[t].wb = "False" => db' = db
                   ELSE tasks'[t].wb = "none" /\ db' = db]_vars

\* A send by URL succeeded and its file_id is stored, and a later send of the
\* same wallpaper is under way with that file_id.
C5_Witness ==
    \E t, u \in TaskIds :
        /\ tasks[t].pc = "done" /\ tasks[t].exit = "success"
        /\ tasks[t].wb = "True" /\ tasks[t].handle # None
        /\ tasks[u].pc = "send"
        /\ tasks[u].photo = <<"file_id", tasks[t].handle>>
        /\ \E r \in db[backend] : r.file_id = tasks[t].handle

\* C6: once the stored file_id of a wallpaper is non-null it stays non-null,
\* whatever is done to the store afterwards (sends, re-ingestion by a
\* crawler).
C6_FileIdKept ==
    [][\A r \in db[backend] :
          r.file_id # None =>
            \E r2 \in db'[backend] : r2.id = r.id /\ r2.file_id # None]_vars

\* C7: after any sequence of insert_wallpaper calls each backend holds exactly
\* one row per inserted id and none for the others, and get_wallpaper_by_id
\* returns a row whose file_id is the one of the latest insert of that id.
C7_UpsertLatestFileId ==
    /\ \A b \in Backends, i \in Ids :
          Cardinality({r \in db[b] : r.id = i}) = Cardinality(lastUpsert[i])
    /\ (ret.op = "get_wallpaper_by_id" =>
          \A w \in lastUpsert[ret.args[1]] :
              /\ ret.value # {}
              /\ \A r \in ret.value : r.id = w.id /\ r.file_id = w.file_id)

\* get_wallpaper_by_id on the networked backend returns a row that a second
\* insert of its id updated, with that insert's file_id.
C7_Witness ==
    /\ ret.op = "get_wallpaper_by_id" /\ ret.backend = "postgres"
    /\ upserts = 2
    /\ \E r \in ret.value : r.created_at = "server" /\ r.file_id # None

\* A row without created_at.
Fields(r) == [id |-> r.id, src |-> r.src, size |-> r.size, width |-> r.width,
              height |-> r.height, sfw |-> r.sfw, file_id |-> r.file_id]

\* C8: after every sequence of insert_wallpaper calls the two backends hold
\* the same record for each id in every field other than created_at.
C8_BackendsAgree ==
    {Fields(r) : r \in db["sqlite"]} = {Fields(r) : r \in db["postgres"]}

\* C9: on both backends get_random_wallpapers with limit 1 returns a wallpaper
\* without a file_id whenever a stored wallpaper matching the filters has
\* none.
C9_PrefersUnpublished ==
    (ret.op = "get_random_wallpapers" /\ ret.args.max_count = 1
       /\ \E r \in db[ret.backend] :
             /\ r.file_id = None
             /\ Matches(r, ret.args.max_size, ret.args.max_width,
                        ret.args.max_height, ret.args.sfw))
    => \A r \in ret.value : r.file_id = None

\* C10: for a limit >= 1, get_random_wallpapers returns a non-empty result
\* exactly when some stored wallpaper satisfies the size, width, height and
\* safety filters, with or without a file_id; otherwise it returns the empty
\* list.
C10_NonEmptyIffMatch ==
    (ret.op = "get_random_wallpapers" /\ ret.args.max_count >= 1)
    => (ret.value # {}
          <=> \E r \in db[ret.backend] :
                 Matches(r, ret.args.max_size, ret.args.max_width,
                         ret.args.max_height, ret.args.sfw))

\* The embedded backend returned a wallpaper that has a file_id (its second
\* query), under the bot's ceilings, while another stored row fails them.
C10_Witness ==
    /\ ret.op = "get_random_wallpapers" /\ ret.backend = "sqlite"
    /\ ret.args.max_size = MaxSizeBytes
    /\ \E r \in ret.value : r.file_id # None
    /\ \E r \in db["sqlite"] : r.size > MaxSizeBytes

\* C11: for a limit >= 0, every wallpaper get_random_wallpapers returns, on
\* either backend, has size, width and height at most the ceilings that are
\* not 0 and, when sfw is not None, the requested sfw; and at most max_count
\* wallpapers are returned.
C11_ResultWithinFilters ==
    (ret.op = "get_random_wallpapers" /\ ret.args.max_count >= 0)
    => /\ Cardinality(ret.value) <= ret.args.max_count
       /\ \A r \in ret.value :
             /\ (ret.args.max_size # 0 => r.size <= ret.args.max_size)
             /\ (ret.args.max_width # 0 => r.width <= ret.args.max_width)
             /\ (ret.args.max_height # 0 => r.height <= ret.args.max_height)
             /\ (ret.args.sfw = "True" => r.sfw)
             /\ (ret.args.sfw = "False" => ~r.sfw)

\* Under the bot's ceilings and sfw = True a wallpaper was returned while the
\* store also holds a row that is too large or not safe; and under ceilings
\* of 0 a row above the bot's ceilings can be returned.
C11_Witness ==
    /\ ret.op = "get_random_wallpapers" /\ ret.value # {}
    /\ \/ /\ ret.args.max_size = MaxSizeBytes /\ ret.args.sfw = "True"
          /\ \E r \in db[ret.backend] : r.size > MaxSizeBytes \/ ~r.sfw
       \/ /\ ret.args.max_size = 0
          /\ \E r \in ret.value :
                r.size > MaxSizeBytes \/ r.width > MaxWidth \/ r.height > MaxHeight

\* C12: get_random_wallpapers with a limit that is zero or negative returns
\* the empty list on both backends, whatever the store holds.
C12_NonPositiveLimitEmpty ==
    (ret.op = "get_random_wallpapers" /\ ret.args.max_count <= 0)
    => ret.value = {}

\* C13: no public operation of either repository raises to its caller:
\* whatever fails inside it (the database, the serialising of an argument,
\* the conversion of a row), the call returns False, None or [].
C13_NeverRaises ==
    ret.op = "fault" => ret.value \subseteq {"False", "None", "[]"}

\* C14: when /subscribe runs in a chat whose subscription was deactivated,
\* get_subscription then returns one record with that chat_id and active
\* true, and the chat is among the active subscriptions, on either backend.
C14_ResubscribeActivates ==
    (ret.op = "subscribe" /\ \E r \in ret.value : ~r.active)
    => /\ GetSubscription(subs, ret.args[1]) # {}
       /\ \A r \in GetSubscription(subs, ret.args[1]) :
             r.chat_id = ret.args[1] /\ r.active
       /\ ret.args[1] \in ActiveSubscriptions(subs)

\* On the networked backend /subscribe ran in a chat whose row was inactive,
\* and the chat is active again.
C14_Witness ==
    /\ ret.op = "subscribe" /\ backend = "postgres"
    /\ \E r \in ret.value : ~r.active
    /\ ret.args[1] \in ActiveSubscriptions(subs)

\* C15: no /subscribe, /unsubscribe or membership update removes a row of
\* table subscriptions, and /unsubscribe changes nothing but active, which
\* it sets to false, in the row of its chat.
C15_NeverDeleted ==
    [][/\ \A r \in subs : \E r2 \in subs' : r2.chat_id = r.chat_id
       /\ ret'.op = "unsubscribe"
            => subs' = {IF r.chat_id = ret'.args[1]
                        THEN [r EXCEPT !.active = FALSE] ELSE r : r \in subs}]_vars

\* /unsubscribe ran in a chat whose row was active: the row is still there,
\* inactive.
C15_Witness ==
    /\ ret.op = "unsubscribe"
    /\ \E r \in ret.value : r.active
    /\ \E r \in GetSubscription(subs, ret.args[1]) : ~r.active

\* C16: a my_chat_member update of a chat that is not a channel leaves table
\* subscriptions unchanged; for a channel, status administrator or member
\* with a boolean can_post_messages stores the chat's row with is_admin =
\* (status is administrator) and active = can_post_messages, and status left
\* or kicked sets active to false in the row there is and creates none; the
\* rows of other chats stay as they are.
C16_MemberUpdate ==
    [][ret'.op = "my_chat_member" =>
         LET c == ret'.args[1]
             status == ret'.args[2]
             flag == ret'.args[3]
         IN  /\ ChatKind(c) # "channel" => subs' = subs
             /\ {r \in subs' : r.chat_id # c} = {r \in subs : r.chat_id # c}
             /\ (ChatKind(c) = "channel" /\ status \in {"administrator", "member"}
                   /\ flag \in {"True", "False"})
                => GetSubscription(subs', c) =
                     {[chat_id |-> c, chat_type |-> "channel",
                       is_admin |-> (status = "administrator"),
                       active |-> (flag = "True")]}
             /\ (ChatKind(c) = "channel" /\ status \in {"left", "kicked"})
                => GetSubscription(subs', c) =
                     {[r EXCEPT !.active = FALSE] : r \in GetSubscription(subs, c)}]_vars

\* A channel whose row was active and not admin got an administrator update
\* without the right to post: the row is admin and inactive.
C16_Witness ==
    /\ ret.op = "my_chat_member" /\ ret.args[2] = "administrator"
    /\ ret.args[3] = "False"
    /\ \E r \in ret.value : r.active /\ ~r.is_admin
    /\ \E r \in GetSubscription(subs, ret.args[1]) : r.is_admin /\ ~r.active

\* C17: every send_photo call of a send attempt, by file_id or by URL, the
\* first and every retry, passes has_spoiler true exactly when the selected
\* wallpaper's sfw is false.
C17_SpoilerIffNotSfw ==
    \A t \in TaskIds :
        tasks[t].pc = "send" =>
            (tasks[t].has_spoiler <=> ~TheWallpaper(tasks[t]).sfw)

\* A retry sends a wallpaper that is not sfw by file_id, marked as a spoiler,
\* while another send of an sfw wallpaper by URL is not marked.
C17_Witness ==
    \E t, u \in TaskIds :
        /\ tasks[t].pc = "send" /\ tasks[t].calls >= 2
        /\ tasks[t].photo[1] = "file_id" /\ tasks[t].has_spoiler
        /\ tasks[u].pc = "send" /\ tasks[u].photo[1] = "url"
        /\ ~tasks[u].has_spoiler

\* A task the scheduler created that has not returned.
Live(t) ==
    tasks[t].pc \in {"created", "send", "sleep", "cancel_created", "cancel_inflight"}

\* C18: at every instant at most 3 of the sends the scheduler dispatched have
\* not returned, and the scheduler creates tasks only when none of the tasks
\* it created before is still running.
C18_FanOutBatches ==
    /\ [](Cardinality({t \in TaskIds \ {0} : Live(t)}) <= 3)
    /\ [][(\E t \in TaskIds : tasks'[t].pc = "created" /\ tasks[t].pc # "created")
            => \A u \in TaskIds \ {0} : ~Live(u)]_vars

\* With more than 3 subscriptions, the second batch of a cycle, smaller than
\* 3, has a send in flight after the first batch returned.
C18_Witness ==
    /\ Cardinality(ActiveSubscriptions(subs)) > 3
    /\ sched.pc = "gather" /\ sched.pending = {}
    /\ Cardinality(sched.batch) < 3
    /\ \E t \in sched.batch : tasks[t].pc = "send"

\* A send that ended in the outer except clause or ran out of retries.
Failed(t) == tasks[t].pc = "done" /\ tasks[t].exit \in {"error", "exhausted"}

\* C19: the step in which a send fails (an exception outside the retry loop,
\* or the last retry raising) changes neither the scheduler nor any other
\* send; and unless the loop is cancelled, a cycle with a failed send in its
\* current batch still reaches its end, which takes every remaining batch
\* through gather, and after the end of a cycle the loop is resumed.
C19_FailureConfined ==
    /\ [][\A t \in TaskIds :
            (tasks[t].pc # "done" /\ tasks'[t].pc = "done"
               /\ tasks'[t].exit \in {"error", "exhausted"})
            => /\ sched' = sched
               /\ \A u \in TaskIds \ {t} : tasks'[u] = tasks[u]]_vars
    /\ (sched.pc = "gather" /\ \E t \in sched.batch : Failed(t))
          ~> (sched.pc = "sleep60" \/ sched.cancelled)
    /\ (sched.pc = "sleep60") ~> (sched.pc = "loop" \/ sched.cancelled)

\* A send of the first batch ran out of retries, another failed in the outer
\* except clause, a third send of the batch is in flight, and a batch is
\* still to come.
C19_Witness ==
    /\ sched.pc = "gather" /\ sched.pending # {} /\ ~sched.cancelled
    /\ \E t, u, v \in sched.batch :
          /\ tasks[t].pc = "done" /\ tasks[t].exit = "exhausted"
          /\ tasks[u].pc = "done" /\ tasks[u].exit = "error"
          /\ tasks[v].pc = "send"

\* C20: once self._task.cancel() was called the scheduler creates no task,
\* takes no new batch and starts no new cycle: its only step is to end.
C20_NoWorkAfterCancel ==
    [][sched.cancelled =>
         /\ \A t \in TaskIds : tasks'[t].pc = "created" => tasks[t].pc = "created"
         /\ sched'.batch = sched.batch /\ sched'.pending = sched.pending
         /\ sched'.last_run_time = sched.last_run_time
         /\ sched'.pc \in {sched.pc, "ended"}]_vars

\* The loop was cancelled while it waited for a batch with another batch
\* still to come; it ended, and a send of the batch ended cancelled.
C20_Witness ==
    /\ sched.cancelled /\ sched.pc = "ended" /\ sched.pending # {}
    /\ \E t \in sched.batch : tasks[t].pc = "done" /\ tasks[t].exit = "cancelled"

\* C21: the cancellation of the cadence loop aborts no send of the batch it
\* waits for: a send suspended in send_photo or asyncio.sleep(1) returns only
\* through a return statement of its own (success, or the last retry failing).
C21_InFlightSendsFinish ==
    [][\A t \in TaskIds :
          (InFlight(t) /\ tasks'[t].pc = "done")
          => tasks'[t].exit \in {"success", "exhausted"}]_vars

\* What the sfw or nsfw handler sends to the chat once the
\* _send_wallpaper_to_chat call it awaits has ended through e: the return
\* value is not looked at, reply_text sits in the except Exception clause and
\* runs only when the call raised.
HandlerReply(e) == IF e = "raised" THEN "failure_message" ELSE "none"

\* C22: an on-demand request whose send failed (no candidate, retries
\* exhausted, or an error caught inside the send) has the failure message
\* sent to the requesting chat.
C22_FailureMessage ==
    (tasks[0].pc = "done"
        /\ tasks[0].exit \in {"no_candidate", "exhausted", "error"})
    => HandlerReply(tasks[0].exit) = "failure_message"

\* get_random_wallpapers as _send_wallpaper_to_chat calls it: limit 1 and the
\* bot's ceilings.
Selector(f) ==
    GetRandomWallpapers(backend, db[backend], 1, MaxSizeBytes, MaxWidth,
                        MaxHeight, f)

\* The selector can return no candidate to coroutine t when it starts: to a
\* task the scheduler created, whose sfw argument is on record; to an
\* on-demand call, whichever of /sfw and /nsfw it serves.
NoCandidateFor(t) ==
    IF tasks[t].pc = "created"
    THEN Selector(tasks[t].sfw) = {{}}
    ELSE \A f \in {"True", "False"} : Selector(f) = {{}}

\* C23: a send attempt that finds no candidate returns False in the step in
\* which it started: it never reaches a send_photo call or the backoff sleep,
\* and the store is left as it was.
C23_NoCandidateFails ==
    [][\A t \in TaskIds :
          (/\ tasks[t].pc \in {"idle", "done", "created"}
           /\ tasks'[t] # tasks[t]
           /\ tasks'[t].pc \notin {"created", "idle"}
           /\ tasks'[t].chat_id \notin running_jobs
           /\ NoCandidateFor(t))
          => /\ tasks'[t].pc = "done"
             /\ tasks'[t].ret = "False"
             /\ tasks'[t].exit = "no_candidate"
             /\ db' = db]_vars

\* An on-demand request and a scheduled send both ended without a candidate
\* while the store held only wallpapers above the size ceiling.
C23_Witness ==
    /\ db[backend] # {}
    /\ \A f \in {"True", "False"} : Selector(f) = {{}}
    /\ tasks[0].pc = "done" /\ tasks[0].exit = "no_candidate"
    /\ \E t \in TaskIds \ {0} : tasks[t].pc = "done" /\ tasks[t].exit = "no_candidate"

\* The wallpaper of src s as a crawler inserts it into an empty store: width
\* 1920, height 1080, size 1000, sfw, no file_id.
Fresh(s) ==
    Wallpaper(s, [size |-> 1000, width |-> 1920, height |-> 1080], TRUE, None)

\* The safe-only sample call: limit 1, size ceiling 5,000,000, width and
\* height ceilings 10000.
Sample(rows) ==
    GetRandomWallpapers(backend, rows, 1, 5000000, 10000, 10000, "True")

\* C24: while the store holds exactly one wallpaper, inserted as Fresh(s), the
\* safe-only sample returns it; the successful send of it by URL, which
\* returns a file_id that insert_wallpaper stores, leaves the one row with
\* that non-null file_id; and the same sample then returns that row, file_id
\* included.
C24_SampleSendSample ==
    /\ [](\A s \in Srcs : db[backend] = {Fresh(s)} => Sample(db[backend]) = {{Fresh(s)}})
    /\ [][\A s \in Srcs, t \in TaskIds :
            (/\ db[backend] = {Fresh(s)}
             /\ tasks[t].pc = "send" /\ tasks[t].wallpaper = {Fresh(s)}
             /\ tasks'[t].pc = "done" /\ tasks'[t].exit = "success"
             /\ tasks'[t].handle # None /\ tasks'[t].wb = "True")
            => \E r \in db'[backend] :
                  /\ db'[backend] = {r}
                  /\ r.id = Md5(s) /\ r.src = s
                  /\ r.file_id # None /\ r.file_id = tasks'[t].handle
                  /\ Sample(db'[backend]) = {{r}}]_vars

\* The one wallpaper of the embedded store was sampled by an on-demand
\* request, sent by URL, and now carries the file_id the send returned.
C24_Witness ==
    /\ backend = "sqlite"
    /\ tasks[0].pc = "done" /\ tasks[0].exit = "success"
    /\ tasks[0].handle # None /\ tasks[0].wb = "True"
    /\ \E s \in Srcs :
          db[backend] = {[Fresh(s) EXCEPT !.file_id = tasks[0].handle]}

\* C25: on either backend, a wallpaper read back by id after its upsert has
\* the tags, the colors and the extra_info it was upserted with.
C25_ColumnsRoundTrip ==
    ret.op = "upsert_get" => ret.value = {ret.args}

\* C26: the id a crawler stores a record under is the MD5 of its src,
\* whichever crawler collected it, and however often a src was ingested the
\* store holds one row for it.
C26_IdFromSrc ==
    /\ ret.op = "collect_wallpaper" => ret.value = {Md5(ret.args[2])}
    /\ \A r \in db[backend] : r.id = Md5(r.src)
    /\ \A r1, r2 \in db[backend] : r1.src = r2.src => r1 = r2

\* Both srcs are stored in the networked store, and the record WallhereSpider
\* collected last had a src that was already stored: its row shows the
\* timestamp of the conflict update.
C26_Witness ==
    /\ backend = "postgres"
    /\ Cardinality(db[backend]) = MaxSrcs
    /\ ret.op = "collect_wallpaper" /\ ret.args[1] = "wallhere"
    /\ \E r \in db[backend] : r.src = ret.args[2] /\ r.created_at = "server"

\* C27: _last_run_time is assigned only in the step that ends a cycle: every
\* subscription of the cycle was dispatched and the last batch has returned.
C27_TimestampAfterCycle ==
    [][sched'.last_run_time # sched.last_run_time
         => (sched.pc = "gather" /\ sched.pending = {} /\ BatchFinished(sched.batch))]_vars

\* C28: a fetch of the active subscriptions comes no sooner than the
\* cooldown of five minutes after the fetch before it, whatever the earlier
\* cycle went on to do; and a pass of the loop made before the cooldown is
\* over fetches nothing and dispatches nothing: the loop sleeps.
C28_CooldownBetweenFetches ==
    /\ [][Len(clock'.cycles) > Len(clock.cycles)
            => (clock.since_fetch = Never \/ clock.since_fetch >= Cooldown)]_vars
    /\ [][(sched.pc = "loop" /\ clock.since_run # Never /\ clock.since_run < Cooldown)
            => /\ clock'.cycles = clock.cycles
               /\ tasks' = tasks
               /\ sched' \in {sched, [sched EXCEPT !.pc = "sleep10"]}]_vars

\* A cycle that found no active subscription, then one that ended with an
\* error, and a third cycle after them that dispatched sends.
C28_Witness ==
    /\ clock.cycles = <<"empty", "error", "sent">>
    /\ sched.pc = "gather"

\* C29: the fetch of a cycle is its only one and fixes the destinations of
\* the cycle; a task is created only for a destination of that list no task
\* was created for before in the cycle; the cycle ends, and only then can the
\* next fetch come, when every destination of the list was dispatched and
\* every send has returned, whether or not its subscription is still active.
C29_CycleDispatchesFetched ==
    /\ [][sched'.fetched # sched.fetched =>
            \/ /\ sched.pc = "loop" /\ sched.fetched = {}
               /\ sched'.fetched = ActiveSubscriptions(subs)
               /\ \A t \in TaskIds \ {0} : ~Live(t)
            \/ /\ sched.pc = "gather" /\ sched'.pc = "sleep60" /\ sched'.fetched = {}
               /\ sched.dispatched = sched.fetched
               /\ \A t \in sched.fetched : ~Live(t)]_vars
    /\ [][\A t \in TaskIds :
            (tasks'[t].pc = "created" /\ tasks[t].pc # "created")
            => /\ t \in sched'.fetched
               /\ t \notin (IF sched.pc = "loop" THEN {} ELSE sched.dispatched)
               /\ t \in sched'.dispatched]_vars
    /\ [][\A t \in sched'.dispatched \ sched.dispatched : tasks'[t].pc = "created"]_vars
    /\ [](sched.pc = "loop" => sched.fetched = {} /\ sched.dispatched = {})

\* The second batch of a cycle: a task was created for a subscription of the
\* fetched list that has been deactivated since the fetch.
C29_Witness ==
    /\ sched.pc = "gather" /\ sched.pending = {}
    /\ Cardinality(sched.fetched) > FanOut
    /\ \E t \in sched.batch :
          /\ tasks[t].pc \in {"created", "send"}
          /\ t \notin ActiveSubscriptions(subs)

\* C30: the step in which the write-back of the file_id a send by URL
\* returned fails is the last step of the send attempt: it returns True, no
\* further send_photo call follows, and the store is left as it was.
C30_WriteBackFailureIgnored ==
    [][\A t \in TaskIds :
          (/\ tasks[t].pc = "send"
           /\ tasks'[t] # tasks[t]
           /\ tasks'[t].wb \notin {"none", "True"})
          => /\ tasks'[t].pc = "done"
             /\ tasks'[t].ret = "True" /\ tasks'[t].exit = "success"
             /\ tasks'[t].chat_id \notin running_jobs'
             /\ db' = db]_vars

\* A scheduled send by URL succeeded and brought a file_id, the write-back
\* failed, and the stored row is still without a file_id.
C30_Witness ==
    \E t \in TaskIds \ {0} :
        /\ tasks[t].pc = "done" /\ tasks[t].exit = "success"
        /\ tasks[t].handle # None /\ tasks[t].wb = "False"
        /\ db[backend] # {}
        /\ \A r \in db[backend] : r.file_id = None

\* C31: a send attempt turned away by the guard on _running_jobs hands its
\* caller a value other than the one handed back when no candidate was found
\* or the retries ran out.
C31_SkipDistinctFromFailure ==
    \A t, u \in TaskIds :
        (/\ tasks[t].pc = "done" /\ tasks[t].exit = "skip"
         /\ tasks[u].pc = "done" /\ tasks[u].exit \in {"no_candidate", "exhausted"})
        => tasks[t].ret # tasks[u].ret

\* C32: the image of a send that /sfw started is sfw and the image of one
\* that /nsfw started is not; a task of the scheduler is created with no sfw
\* argument, and its image is of either kind; and the image of every send,
\* whoever started it, is at most 5 * 1024 * 1024 bytes, 10000 wide and 10000
\* high.
C32_SafetyAndCeilings ==
    \A t \in TaskIds :
        /\ (t # 0 /\ tasks[t].pc # "idle") => tasks[t].sfw = "None"
        /\ tasks[t].pc \in {"send", "sleep"} =>
              LET w == TheWallpaper(tasks[t]) IN
              /\ w.size <= 5 * 1024 * 1024
              /\ w.width <= 10000
              /\ w.height <= 10000
              /\ t = 0 => /\ tasks[t].sfw \in {"True", "False"}
                          /\ w.sfw = (tasks[t].sfw = "True")

\* /nsfw is sending the image that is not safe to one chat while a task of
\* the scheduler, whose filter would have let that image through as well,
\* sends the safe image to the other.
C32_Witness ==
    /\ tasks[0].pc = "send" /\ tasks[0].sfw = "False"
    /\ ~TheWallpaper(tasks[0]).sfw
    /\ \E t \in TaskIds \ {0} :
          /\ tasks[t].pc = "send" /\ tasks[t].sfw = "None"
          /\ TheWallpaper(tasks[t]).sfw

\* The ids of the images some chat has received.
Delivered == IF ret.op = "send_photo" THEN ret.value ELSE {}

\* C33: no send delivers an image some chat has received before while the
\* store holds an image, within the ceilings and of the safety asked for, that
\* no chat has received. Stated for the embedded store, which samples the
\* images without a file_id first, and for an image whose earlier delivery
\* has its file_id on record there.
C33_NoRepeatBeforeFresh ==
    [][\A t \in TaskIds :
          (/\ backend = "sqlite"
           /\ tasks[t].pc = "send"
           /\ tasks'[t].pc = "done" /\ tasks'[t].exit = "success"
           /\ TheWallpaper(tasks[t]).id \in Delivered
           /\ \E r \in Stored(db, TheWallpaper(tasks[t]).id) : r.file_id # None)
          => ~\E r \in db[backend] :
                /\ r.id \notin Delivered
                /\ Matches(r, MaxSizeBytes, MaxWidth, MaxHeight, tasks[t].sfw)]_vars

\* The send_photo call coroutine t awaits raises in this step.
CallRaises(t) ==
    /\ tasks[t].pc = "send"
    /\ \/ tasks'[t].pc = "sleep" /\ tasks'[t].raised = tasks[t].raised + 1
       \/ tasks'[t].pc = "done" /\ tasks'[t].exit = "exhausted"

\* C34: within one send attempt asyncio.sleep(1) follows each send_photo call
\* that raised except the third, and nothing else: a call that returned and
\* the third call that raised are followed by the return. attempt counts the
\* sleeps that are over, so an attempt that gives up has slept exactly twice.
C34_BackoffBetweenRetries ==
    /\ [][\A t \in TaskIds :
            /\ (tasks[t].pc = "send" /\ tasks'[t].pc = "sleep")
               => CallRaises(t) /\ tasks[t].calls < 3
            /\ (CallRaises(t) /\ tasks[t].calls < 3) => tasks'[t].pc = "sleep"
            /\ (CallRaises(t) /\ tasks[t].calls >= 3)
               => /\ tasks'[t].pc = "done"
                  /\ tasks[t].calls = 3 /\ tasks[t].attempt = 2
            /\ (tasks[t].pc = "sleep" /\ tasks'[t].pc = "send")
               => tasks'[t].attempt = tasks[t].attempt + 1]_vars
    /\ [](\A t \in TaskIds :
            tasks[t].pc = "sleep" => tasks[t].attempt + 1 = tasks[t].calls
                                     /\ tasks[t].calls <= 2)

\* In one batch a send gave up after its third call, another sleeps for the
\* second time, and a third returned from a call that did not raise.
C34_Witness ==
    \E t, u, v \in sched.batch :
        /\ tasks[t].pc = "done" /\ tasks[t].exit = "exhausted"
        /\ tasks[u].pc = "sleep" /\ tasks[u].attempt = 1
        /\ tasks[v].pc = "done" /\ tasks[v].exit = "success"

\* Coroutine t runs its first lines in this step: the call of a handler, or
\* the first step of a task the scheduler created.
Starts(t) ==
    /\ tasks[t].pc \in {"idle", "done", "created"}
    /\ tasks'[t] # tasks[t]
    /\ tasks'[t].pc \notin {"idle", "created"}

\* C35: the chat_id of a send attempt is in _running_jobs as long as the
\* attempt awaits send_photo or sleeps between two calls; an attempt for the
\* same chat that starts while the holder sleeps, from a command or from the
\* scheduler, returns through the guard and leaves the holder as it is.
C35_HeldThroughBackoff ==
    /\ [](\A t \in TaskIds :
            tasks[t].pc \in {"send", "sleep"} => tasks[t].chat_id \in running_jobs)
    /\ [][\A t, u \in TaskIds :
            (/\ Starts(t) /\ u # t
             /\ tasks[u].pc = "sleep"
             /\ tasks[u].chat_id = tasks'[t].chat_id)
            => /\ tasks'[t].pc = "done" /\ tasks'[t].exit = "skip"
               /\ tasks'[u] = tasks[u]
               /\ running_jobs' = running_jobs]_vars

\* The scheduler's send to chat 1 went through the guard while the on-demand
\* send to chat 1 is in its second backoff sleep.
C35_Witness ==
    /\ tasks[0].pc = "sleep" /\ tasks[0].chat_id = 1 /\ tasks[0].attempt = 1
    /\ tasks[1].pc = "done" /\ tasks[1].exit = "skip"
    /\ running_jobs = {1}

\* C36: a send attempt calls send_photo again only after a call that raised:
\* while it awaits a call every call before it has raised, while it sleeps
\* every call has, and no call has returned a message yet; the step in which
\* a call returns is the last of the attempt and returns True, whether
\* insert_wallpaper stored the file_id, failed, or was not called.
C36_OneImagePerAttempt ==
    /\ [](\A t \in TaskIds :
            /\ tasks[t].pc = "send" => tasks[t].raised = tasks[t].calls - 1
            /\ tasks[t].pc = "sleep" => tasks[t].raised = tasks[t].calls
            /\ tasks[t].pc \in {"send", "sleep"}
                  => tasks[t].handle = None /\ tasks[t].wb = "none")
    /\ [][\A t \in TaskIds :
            (tasks[t].pc = "send" /\ tasks'[t] # tasks[t] /\ ~CallRaises(t))
            => /\ tasks'[t].pc = "done"
               /\ tasks'[t].ret = "True" /\ tasks'[t].exit = "success"]_vars

\* A send by URL returned a file_id and the write-back failed, and that was
\* the end of the attempt; another attempt is at its third call after two
\* calls that raised.
C36_Witness ==
    \E t, u \in TaskIds :
        /\ tasks[t].pc = "done" /\ tasks[t].exit = "success"
        /\ tasks[t].handle # None /\ tasks[t].wb = "False"
        /\ tasks[u].pc = "send" /\ tasks[u].calls = 3 /\ tasks[u].raised = 2

\* C37: the insert_wallpaper call that follows a send by URL changes, in the
\* row of the wallpaper as it is stored at that moment, the file_id and, on
\* the networked backend, created_at, and nothing else.
C37_WriteBackOnlyFileId ==
    [][\A t \in TaskIds :
          (tasks[t].pc = "send" /\ tasks'[t].pc = "done" /\ tasks'[t].wb = "True")
          => \A r \in Stored(db, TheWallpaper(tasks[t]).id) :
                Stored(db', r.id) =
                    {[r EXCEPT !.file_id = tasks'[t].handle,
                               !.created_at = IF backend = "postgres"
                                              THEN "server" ELSE @]}]_vars

\* C38: when the write-back of a send by URL runs after the write-back of
\* another send, to another chat, that selected the same wallpaper without a
\* file_id, the store afterwards holds one row for the wallpaper, and its
\* file_id is the one send_photo returned to the later send.
C38_LastWriteBackWins ==
    [][\A t, u \in TaskIds :
          (/\ tasks[t].pc = "send" /\ tasks'[t].pc = "done"
           /\ tasks'[t].exit = "success" /\ tasks'[t].wb = "True"
           /\ tasks[u].pc = "done" /\ tasks[u].exit = "success"
           /\ tasks[u].wb = "True" /\ tasks[u].handle # None
           /\ tasks[u].chat_id # tasks[t].chat_id
           /\ \E r \in Stored(db, TheWallpaper(tasks[t]).id) :
                 r.file_id = tasks[u].handle)
          => /\ Cardinality(Stored(db', TheWallpaper(tasks[t]).id)) = 1
             /\ \A r \in Stored(db', TheWallpaper(tasks[t]).id) :
                   r.file_id # None /\ r.file_id = tasks'[t].handle]_vars

\* The store holds one image a send can select. The on-demand send to chat 1
\* and the scheduler's send to chat 2 both sent it by URL and were returned
\* different file_ids; both write-backs ran, and the row has one of the two.
C38_Witness ==
    /\ \E r \in db[backend] : ~Fits(r)
    /\ tasks[0].pc = "done" /\ tasks[0].chat_id = 1 /\ tasks[0].wb = "True"
    /\ tasks[2].pc = "done" /\ tasks[2].wb = "True"
    /\ tasks[0].handle # None /\ tasks[2].handle # None
    /\ tasks[0].handle # tasks[2].handle
    /\ \E r \in db[backend] : Fits(r) /\ r.file_id \in {tasks[0].handle, tasks[2].handle}
    /\ Cardinality(db[backend]) = 2

\* C39: deactivate_subscription on a chat that has a row returns True and
\* changes, in that row, active (to false) and updated_at (to the time of the
\* call) and no other column; on a chat without a row it returns False and
\* the table is as before; the rows of other chats are never touched.
C39_DeactivateFrame ==
    ret.op = "deactivate_subscription" =>
        LET c == ret.args[1]
            now == ret.args[2]
            before == ret.args[3]
        IN  /\ {r \in subs : r.chat_id # c} = {r \in before : r.chat_id # c}
            /\ Cardinality(GetSubscription(subs, c))
                  = Cardinality(GetSubscription(before, c))
            /\ GetSubscription(before, c) = {} => ret.value = {"False"} /\ subs = before
            /\ \A r \in GetSubscription(before, c) :
                  /\ ret.value = {"True"}
                  /\ \A r2 \in GetSubscription(subs, c) :
                        /\ ~r2.active /\ r2.updated_at = now
                        /\ r2.chat_type = r.chat_type /\ r2.title = r.title
                        /\ r2.username = r.username /\ r2.is_admin = r.is_admin
                        /\ r2.created_at = r.created_at
                        /\ r2.extra_info = r.extra_info

\* The only row of the table, of a chat where the bot is administrator, with
\* extra_info, active and last updated at 1, was deactivated at 2.
C39_Witness ==
    /\ ret.op = "deactivate_subscription" /\ ret.args[2] = 2
    /\ \E r \in GetSubscription(ret.args[3], ret.args[1]) :
          r.active /\ r.is_admin /\ r.updated_at = 1 /\ r.extra_info # <<>>
    /\ \E r \in GetSubscription(subs, ret.args[1]) : ~r.active /\ r.is_admin
    /\ Cardinality(subs) = 1

\* C40: a send attempt makes at most 3 send_photo calls and sleeps at most
\* twice; and when the event loop keeps running what is ready (every
\* send_photo call returns or raises, every sleep ends), an attempt that
\* holds its chat_id comes to an end with the chat_id out of _running_jobs.
C40_AttemptTerminates ==
    /\ [](\A t \in TaskIds : tasks[t].calls <= 3 /\ tasks[t].attempt <= 2)
    /\ \A t \in Subscribers :
          (InFlight(t) /\ t \in running_jobs)
             ~> (tasks[t].pc \in {"done", "idle"} /\ t \notin running_jobs)

\* Of one batch, a send gave up after its third call and another returned
\* True; neither chat is in _running_jobs, and the third send, at its third
\* call, still holds its chat.
C40_Witness ==
    \E t, u, v \in sched.batch :
        /\ tasks[t].pc = "done" /\ tasks[t].exit = "exhausted" /\ t \notin running_jobs
        /\ tasks[u].pc = "done" /\ tasks[u].exit = "success" /\ u \notin running_jobs
        /\ tasks[v].pc = "send" /\ tasks[v].calls = 3 /\ running_jobs = {v}

====
